---- MODULE Spec2Model ----
(***************************************************************************)
(* Query normalisation and feature-weighted retrieval pipeline of the RAG  *)
(* project: QueryRouter, LLMQueryUnderstanding, QdrantRetriever,           *)
(* PDFTransformer, OCRProcessor / ImageTransformer and FeatureExtractor.   *)
(*                                                                         *)
(* Python values are records tagged by their type in field t.  A Python    *)
(* str is a sequence of tokens; a token is a run of characters of known    *)
(* width, so that len(), strip(), startswith() and replace() are computed  *)
(* on the text and not assumed.  Dictionary keys are sequences of string   *)
(* pieces, so that endswith('_range') and replace('_range', '') are        *)
(* computed on the key.                                                    *)
(***************************************************************************)
EXTENDS Integers, Sequences, FiniteSets, TLC

VARIABLES
    env,      \* what the process environment provides (API key, optional packages)
    router,   \* the QueryRouter object: query_understanding and its lazily built _llm
    last,     \* the last operation: its arguments, the calls it made, its outcome
    process   \* the threads of the serving process, its module globals and the lock

vars == <<env, router, last, process>>

(***************************************************************************)
(* Bounds                                                                  *)
(***************************************************************************)
MaxTopK == 2
\* the most pages a PDF handed to load_pdf has
MaxPages == 4
\* the threads that call into the process at the same time
NumThreads == 2

(***************************************************************************)
(* Python values                                                           *)
(***************************************************************************)
PyNone == [t |-> "None"]
PyInt(n) == [t |-> "int", n |-> n]
PyStr(s) == [t |-> "str", s |-> s]
PyDict(m) == [t |-> "dict", m |-> m]
PyList(l) == [t |-> "list", l |-> l]

\* bool(v)
Truthy(v) ==
    CASE v.t = "None" -> FALSE
      [] v.t = "int"  -> v.n # 0
      [] v.t = "str"  -> v.s # <<>>
      [] v.t = "dict" -> DOMAIN v.m # {}
      [] v.t = "list" -> v.l # <<>>
      [] OTHER        -> TRUE

\* d.get(k) and d.get(k, default) on the mapping of a dict
dict_get(m, k, default) == IF k \in DOMAIN m THEN m[k] ELSE default

\* the mapping of a dict after d.update(other): other's entries win
dict_update(m, other) ==
    [k \in (DOMAIN m) \cup (DOMAIN other) |->
        IF k \in DOMAIN other THEN other[k] ELSE m[k]]

\* outcomes of a call
Ret(v) == [ok |-> TRUE, v |-> v]
Raise(e) == [ok |-> FALSE, exc |-> e]

(***************************************************************************)
(* Text: tokens and the str methods the code uses                          *)
(***************************************************************************)
\* a run of n non-whitespace characters named id
W(id, n) == [c |-> "ch", id |-> id, n |-> n]
\* a run of n whitespace characters
WS(n) == [c |-> "ws", id |-> " ", n |-> n]
\* the serialised text of the JSON value v
JsonText(v) == [c |-> "json", v |-> v]

\* the three-backquote code fence
Fence == W("fence", 3)
JsonTag == W("json", 4)

RECURSIVE lstrip(_)
lstrip(s) ==
    IF s # <<>> /\ Head(s).c = "ws" THEN lstrip(Tail(s)) ELSE s

RECURSIVE rstrip(_)
rstrip(s) ==
    IF s # <<>> /\ s[Len(s)].c = "ws" THEN rstrip(SubSeq(s, 1, Len(s) - 1)) ELSE s

\* str.strip()
strip(s) == rstrip(lstrip(s))

(***************************************************************************)
(* QdrantRetriever.search                                                  *)
(***************************************************************************)
RangeSuffix == "_range"

\* key.endswith('_range')
endswith_range(key) == key # <<>> /\ key[Len(key)] = RangeSuffix

\* key.replace('_range', ''): every occurrence goes
replace_range(key) == SelectSeq(key, LAMBDA piece : piece # RangeSuffix)

K_gte == <<"gte">>
K_lte == <<"lte">>

\* FieldCondition building an exact match for every entry
FieldCondition_match_only(key, value) ==
    [key |-> key, kind |-> "match", value |-> value]

\* the FieldCondition built for one entry of filter_conditions
FieldCondition(key, value) ==
    IF endswith_range(key) /\ value.t = "dict"
    THEN [key |-> replace_range(key), kind |-> "range",
          gte |-> dict_get(value.m, K_gte, PyNone),
          lte |-> dict_get(value.m, K_lte, PyNone)]
    ELSE [key |-> key, kind |-> "match", value |-> value]

\* query_filter: None unless filter_conditions is a non-empty dict, else one
\* must-condition per entry
BuildQueryFilter(filter_conditions) ==
    IF ~Truthy(filter_conditions)
    THEN PyNone
    ELSE [t |-> "Filter",
          must |-> [k \in DOMAIN filter_conditions.m |->
                        FieldCondition(k, filter_conditions.m[k])]]

\* self.model.encode(query): the embedding is a function of the text only
encode(query) == [embedding_of |-> query]

K_client_id == <<"client_id">>
K_target == <<"target">>
K_text == <<"text">>

\* FormatResults listing the hits last to first
FormatResults_reversed(points) ==
    [i \in 1..Len(points) |->
        [client_id |-> dict_get(points[Len(points) + 1 - i].payload.m, K_client_id, PyNone),
         score     |-> points[Len(points) + 1 - i].score,
         target    |-> dict_get(points[Len(points) + 1 - i].payload.m, K_target, PyNone),
         text      |-> dict_get(points[Len(points) + 1 - i].payload.m, K_text, PyNone),
         payload   |-> points[Len(points) + 1 - i].payload,
         metadata  |-> points[Len(points) + 1 - i].payload]]

\* one formatted result per hit, in the order of the response
FormatResults(points) ==
    [i \in 1..Len(points) |->
        [client_id |-> dict_get(points[i].payload.m, K_client_id, PyNone),
         score     |-> points[i].score,
         target    |-> dict_get(points[i].payload.m, K_target, PyNone),
         text      |-> dict_get(points[i].payload.m, K_text, PyNone),
         payload   |-> points[i].payload,
         metadata  |-> points[i].payload]]

\* search answering a failed database call with an empty result list
search_swallows_failure(query, top_k, filter_conditions, db) ==
    [requests |-> << [query |-> encode(query), limit |-> top_k,
                      query_filter |-> BuildQueryFilter(filter_conditions)] >>,
     out |-> IF db.ok THEN Ret(FormatResults(db.v)) ELSE Ret(<< >>)]

\* search(query, top_k, filter_conditions) against a database that answers db:
\* the requests dispatched and the outcome
search(query, top_k, filter_conditions, db) ==
    [requests |-> << [query |-> encode(query), limit |-> top_k,
                      query_filter |-> BuildQueryFilter(filter_conditions)] >>,
     out |-> IF db.ok THEN Ret(FormatResults(db.v)) ELSE Raise(db.exc)]

(***************************************************************************)
(* LLMQueryUnderstanding                                                   *)
(***************************************************************************)
\* content.replace("```json", ""): every fence directly followed by the tag
\* goes, left to right
RECURSIVE replace_fence_json(_)
replace_fence_json(s) ==
    IF s = <<>> THEN <<>>
    ELSE IF Len(s) >= 2 /\ s[1] = Fence /\ s[2] = JsonTag
         THEN replace_fence_json(SubSeq(s, 3, Len(s)))
         ELSE <<Head(s)>> \o replace_fence_json(Tail(s))

\* the replace() calls of parse_query work on the whole content, so also on
\* the string literals inside the JSON text (with_tag: the "```json" branch)
RECURSIVE remove_fences(_, _)
RECURSIVE remove_fences_in_value(_, _)
remove_fences(s, with_tag) ==
    LET a == IF with_tag THEN replace_fence_json(s) ELSE s
        b == SelectSeq(a, LAMBDA tok : tok # Fence)
    IN  [i \in 1..Len(b) |->
            IF b[i].c = "json"
            THEN JsonText(remove_fences_in_value(b[i].v, with_tag))
            ELSE b[i]]
remove_fences_in_value(v, with_tag) ==
    CASE v.t = "str"  -> PyStr(remove_fences(v.s, with_tag))
      [] v.t = "dict" -> PyDict([k \in DOMAIN v.m |-> remove_fences_in_value(v.m[k], with_tag)])
      [] v.t = "list" -> PyList([i \in 1..Len(v.l) |-> remove_fences_in_value(v.l[i], with_tag)])
      [] OTHER        -> v

\* json.loads(content): exactly one JSON text, whitespace around it allowed
json_loads(s) ==
    LET b == strip(s)
    IN  IF Len(b) = 1 /\ b[1].c = "json" THEN Ret(b[1].v) ELSE Raise("JSONDecodeError")

\* _initialize_llm for provider "mistral"
initialize_llm(e) ==
    IF ~e.langchain_mistralai THEN Raise("ImportError")
    ELSE IF ~e.MISTRAL_API_KEY THEN Raise("ValueError")
    ELSE Ret("ChatMistralAI")

K_search_query == <<"search_query">>
K_filters == <<"filters">>
K_intent == <<"intent">>
K_detected_attributes == <<"detected_attributes">>
K_explanation == <<"explanation">>

create_fallback_result(query) ==
    [original_query   |-> query,
     search_query     |-> query,
     filters          |-> PyDict(<<>>),
     intent           |-> PyNone,
     detected_filters |-> PyList(<<>>),
     explanation      |-> PyStr(<<W("LLM parsing failed, using direct search", 39)>>)]

\* build_result reading every field with .get(key) and no default
build_result_without_defaults(query, parsed_llm) ==
    [original_query   |-> query,
     search_query     |-> dict_get(parsed_llm, K_search_query, PyNone),
     filters          |-> dict_get(parsed_llm, K_filters, PyNone),
     intent           |-> dict_get(parsed_llm, K_intent, PyNone),
     detected_filters |-> dict_get(parsed_llm, K_detected_attributes, PyNone),
     explanation      |-> dict_get(parsed_llm, K_explanation, PyNone)]

\* the record built from a parsed reply that is a JSON object
build_result(query, parsed_llm) ==
    [original_query   |-> query,
     search_query     |-> dict_get(parsed_llm, K_search_query, query),
     filters          |-> dict_get(parsed_llm, K_filters, PyDict(<<>>)),
     intent           |-> dict_get(parsed_llm, K_intent, PyNone),
     detected_filters |-> dict_get(parsed_llm, K_detected_attributes, PyList(<<>>)),
     explanation      |-> dict_get(parsed_llm, K_explanation, PyStr(<<>>))]

\* the content of the reply with a wrapping code fence removed
unfence(content) ==
    LET c == strip(content)
    IN  IF Len(c) >= 2 /\ c[1] = Fence /\ c[2] = JsonTag
        THEN strip(remove_fences(c, TRUE))
        ELSE IF c # <<>> /\ c[1] = Fence
             THEN strip(remove_fences(c, FALSE))
             ELSE c

\* the try block of parse_query (source lines 191-226) on an object whose
\* _llm is built or not (llm_built), in environment e, when the service
\* answers resp to invoke(): the inner handler turns a JSONDecodeError into
\* the fallback result, every other exception leaves the block
parse_query_try(query, llm_built, e, resp) ==
    LET init == IF llm_built THEN Ret("ChatMistralAI") ELSE initialize_llm(e)
    IN  IF ~init.ok THEN Raise(init.exc)
        ELSE IF ~resp.ok THEN Raise(resp.exc)
        ELSE IF resp.v.t # "str" THEN Raise("AttributeError")
        ELSE LET loaded == json_loads(unfence(resp.v.s))
             IN  IF ~loaded.ok THEN Ret(create_fallback_result(query))
                 ELSE IF loaded.v.t # "dict" THEN Raise("AttributeError")
                 ELSE Ret(build_result(query, loaded.v.m))

\* what parse_query hands to its caller without the outer handler
parse_query_unguarded(query, llm_built, e, resp) ==
    [out     |-> parse_query_try(query, llm_built, e, resp),
     llm     |-> llm_built \/ initialize_llm(e).ok,
     invoked |-> llm_built \/ initialize_llm(e).ok]

\* parse_query(query): the outer handler (except Exception) returns the
\* fallback result; also the new _llm and whether invoke() was called
parse_query(query, llm_built, e, resp) ==
    LET body == parse_query_try(query, llm_built, e, resp)
    IN  [out     |-> IF body.ok THEN body ELSE Ret(create_fallback_result(query)),
         llm     |-> llm_built \/ initialize_llm(e).ok,
         invoked |-> llm_built \/ initialize_llm(e).ok]

(***************************************************************************)
(* QueryRouter.process_text_query                                          *)
(***************************************************************************)
\* values a for-loop can iterate
Iterable(v) == v.t \in {"str", "list", "dict"}

\* merge_filters with the precedence reversed: the caller's entries win
merge_filters_explicit_wins(filter_conditions, parsed_filters) ==
    LET base == IF Truthy(filter_conditions) THEN filter_conditions.m ELSE <<>>
    IN  IF parsed_filters.t = "dict"
        THEN Ret(PyDict(dict_update(parsed_filters.m, base)))
        ELSE IF parsed_filters.t \in {"str", "list"}
             THEN IF Truthy(parsed_filters) THEN Raise("ValueError") ELSE Ret(PyDict(base))
             ELSE Raise("TypeError")

\* final_filters = filter_conditions.copy() if filter_conditions else {}
\* final_filters.update(parsed['filters'])
merge_filters(filter_conditions, parsed_filters) ==
    LET base == IF Truthy(filter_conditions) THEN filter_conditions.m ELSE <<>>
    IN  IF parsed_filters.t = "dict"
        THEN Ret(PyDict(dict_update(base, parsed_filters.m)))
        ELSE IF parsed_filters.t \in {"str", "list"}
             THEN IF Truthy(parsed_filters) THEN Raise("ValueError") ELSE Ret(PyDict(base))
             ELSE Raise("TypeError")

\* final_filters = filter_conditions or {}: no copy is made
bind_final_filters_aliased(filter_conditions, use) ==
    IF ~use \/ Truthy(filter_conditions)
    THEN [final |-> "caller", caller |-> filter_conditions, new |-> PyNone]
    ELSE [final |-> "new", caller |-> filter_conditions, new |-> PyDict(<<>>)]

\* lines 150 and 154 on objects: caller is the object the caller passed, new
\* an object made by the call, final the one of the two final_filters refers
\* to (use: the understanding branch is taken).  copy() makes a new dict
\* with the caller's entries
bind_final_filters(filter_conditions, use) ==
    IF ~use THEN [final |-> "caller", caller |-> filter_conditions, new |-> PyNone]
    ELSE IF Truthy(filter_conditions)
         THEN [final |-> "new", caller |-> filter_conditions, new |-> filter_conditions]
         ELSE [final |-> "new", caller |-> filter_conditions, new |-> PyDict(<<>>)]

\* line 151: final_filters.update(other) changes the object final_filters
\* refers to; an empty list or str adds nothing
update_final_filters(objects, other) ==
    IF other.t = "dict"
    THEN [objects EXCEPT ![objects.final] = PyDict(dict_update(@.m, other.m))]
    ELSE objects

\* the objects after lines 128-154: nothing is updated when an exception is
\* raised on the way (plan: what understood gives)
filter_objects(filter_conditions, use, parsed, plan) ==
    IF use /\ plan.ok
    THEN update_final_filters(bind_final_filters(filter_conditions, use), parsed.v.filters)
    ELSE bind_final_filters(filter_conditions, FALSE)

\* understood starting from an empty dict instead of the caller's filters
understood_drops_explicit(parsed, query, filter_conditions) ==
    IF Truthy(parsed.detected_filters) /\ ~Iterable(parsed.detected_filters)
    THEN Raise("TypeError")
    ELSE IF Truthy(parsed.filters) /\ parsed.filters.t # "dict"
    THEN Raise("AttributeError")
    ELSE LET merged == merge_filters(PyNone, parsed.filters)
         IN  IF ~merged.ok THEN merged
             ELSE Ret([search_query  |-> IF Truthy(parsed.search_query)
                                         THEN parsed.search_query ELSE query,
                       final_filters |-> merged.v])

\* lines 131-151 on the record parse_query returned: the search text and the
\* filters for the retriever, or the exception raised on the way
understood(parsed, query, filter_conditions) ==
    IF Truthy(parsed.detected_filters) /\ ~Iterable(parsed.detected_filters)
    THEN Raise("TypeError")
    ELSE IF Truthy(parsed.filters) /\ parsed.filters.t # "dict"
    THEN Raise("AttributeError")
    ELSE LET merged == merge_filters(filter_conditions, parsed.filters)
         IN  IF ~merged.ok THEN merged
             ELSE Ret([search_query  |-> IF Truthy(parsed.search_query)
                                         THEN parsed.search_query ELSE query,
                       final_filters |-> merged.v])

\* search_query[:50] in the progress message
Sliceable(v) == v.t \in {"str", "list"}

NotCalled == [ok |-> FALSE, exc |-> "not called"]

\* lines 156-160: the retrieval call on the search text and filters of plan
\* (pq is what parse_query gave), or the exception met before it
text_search(pq, plan, top_k, db) ==
    LET go == plan.ok /\ Sliceable(plan.v.search_query)
    IN  [llm          |-> pq.llm,
         llm_calls    |-> IF pq.invoked THEN 1 ELSE 0,
         parsed       |-> pq.out,
         search_calls |-> IF go THEN << [query |-> plan.v.search_query, top_k |-> top_k,
                                         filter_conditions |-> plan.v.final_filters] >>
                          ELSE << >>,
         requests     |-> IF go
                          THEN search(plan.v.search_query, top_k, plan.v.final_filters,
                                      db).requests
                          ELSE << >>,
         out          |-> IF ~plan.ok THEN plan
                          ELSE IF ~go THEN Raise("TypeError")
                          ELSE search(plan.v.search_query, top_k, plan.v.final_filters,
                                      db).out]

\* lines 128-154 once parse_query has answered pq (use: the understanding
\* branch is taken)
text_plan(pq, use, query, top_k, filter_conditions, db) ==
    text_search(pq,
                IF ~use
                THEN Ret([search_query |-> query, final_filters |-> filter_conditions])
                ELSE IF ~pq.out.ok THEN pq.out
                ELSE understood(pq.out.v, query, filter_conditions),
                top_k, db)

\* process_text_query(query, top_k, filter_conditions, enable_query_understanding)
\* on router r in environment e, the LLM answering resp and the database db
process_text_query(r, e, query, top_k, filter_conditions, enable, resp, db) ==
    text_plan(IF enable /\ r.query_understanding
              THEN parse_query(query, r.llm, e, resp)
              ELSE [out |-> NotCalled, llm |-> r.llm, invoked |-> FALSE],
              enable /\ r.query_understanding, query, top_k, filter_conditions, db)

(***************************************************************************)
(* OCRProcessor                                                            *)
(*                                                                         *)
(* An image is what the two engines would report for it: tess is the       *)
(* outcome of pytesseract (text and the token confidences) and easy the    *)
(* outcome of the EasyOCR reader.                                          *)
(***************************************************************************)
ConfidenceThreshold == 60

RECURSIVE SumSeq(_)
SumSeq(q) == IF q = << >> THEN 0 ELSE Head(q) + SumSeq(Tail(q))

\* len(text)
RECURSIVE StrLen(_)
StrLen(s) == IF s = << >> THEN 0 ELSE Head(s).n + StrLen(Tail(s))

EmptyStr == PyStr(<< >>)

\* ocr_pytesseract(image): the text and the average of the confidences other
\* than -1, kept as the fraction num/den; ("", 0) on any error
ocr_pytesseract(image) ==
    IF ~image.tess.ok
    THEN [text |-> EmptyStr, num |-> 0, den |-> 1]
    ELSE LET confidences == SelectSeq(image.tess.v.conf, LAMBDA c : c # -1)
         IN  [text |-> image.tess.v.text,
              num  |-> IF confidences = << >> THEN 0 ELSE SumSeq(confidences),
              den  |-> IF confidences = << >> THEN 1 ELSE Len(confidences)]

\* ocr_easyocr(image): "" when the package is missing or the reader fails
ocr_easyocr(image, e) ==
    IF ~e.easyocr THEN EmptyStr
    ELSE IF image.easy.ok THEN image.easy.v ELSE EmptyStr

\* ocr_image taking the secondary text also when it is as long as the primary
ocr_image_ties_to_secondary(image, e) ==
    LET primary == ocr_pytesseract(image)
    IN  IF primary.num >= ConfidenceThreshold * primary.den
        THEN primary.text
        ELSE IF e.easyocr /\ StrLen(ocr_easyocr(image, e).s) >= StrLen(primary.text.s)
             THEN ocr_easyocr(image, e)
             ELSE primary.text

\* ocr_image(image) with the default confidence_threshold
ocr_image(image, e) ==
    LET primary == ocr_pytesseract(image)
    IN  IF primary.num >= ConfidenceThreshold * primary.den
        THEN primary.text
        ELSE IF e.easyocr /\ StrLen(ocr_easyocr(image, e).s) > StrLen(primary.text.s)
             THEN ocr_easyocr(image, e)
             ELSE primary.text

(***************************************************************************)
(* PDFTransformer                                                          *)
(*                                                                         *)
(* A PDF file is what the libraries would report for it: whether           *)
(* pdfplumber and PyMuPDF open it, and per page the outcome of             *)
(* extract_text() (direct) and of rasterising the page (raster).  The id   *)
(* of an entry is a fresh uuid4 and is left out.                           *)
(***************************************************************************)
PagesToCheck == 3
TextThreshold == 50

Min(a, b) == IF a < b THEN a ELSE b

\* text and text.strip()
HasText(v) == Truthy(v) /\ strip(v.s) # << >>

\* detect_pdf_type answering 'text' from a total of TextThreshold on
detect_pdf_type_at_least(pdf) ==
    LET pages_to_check == Min(PagesToCheck, Len(pdf.pages))
        counted == [i \in 1..pages_to_check |->
                       IF Truthy(pdf.pages[i].direct.v)
                       THEN StrLen(strip(pdf.pages[i].direct.v.s)) ELSE 0]
    IN  IF ~pdf.plumber_opens THEN "scanned"
        ELSE IF \E i \in 1..pages_to_check : ~pdf.pages[i].direct.ok THEN "scanned"
        ELSE IF SumSeq(counted) >= TextThreshold THEN "text" ELSE "scanned"

\* detect_pdf_type(pdf_path)
detect_pdf_type(pdf) ==
    LET pages_to_check == Min(PagesToCheck, Len(pdf.pages))
        counted == [i \in 1..pages_to_check |->
                       IF Truthy(pdf.pages[i].direct.v)
                       THEN StrLen(strip(pdf.pages[i].direct.v.s)) ELSE 0]
    IN  IF ~pdf.plumber_opens THEN "scanned"
        ELSE IF \E i \in 1..pages_to_check : ~pdf.pages[i].direct.ok THEN "scanned"
        ELSE IF SumSeq(counted) > TextThreshold THEN "text" ELSE "scanned"

Entry(source, page, modality, method, text) ==
    [source |-> source, page |-> page, modality |-> modality,
     extraction_method |-> method, text |-> text]

\* the pages before the first one on which f fails (the loop sits inside one
\* try block)
RECURSIVE UntilFailure(_, _)
UntilFailure(outcomes, i) ==
    IF i > Len(outcomes) \/ ~outcomes[i].ok THEN i - 1 ELSE UntilFailure(outcomes, i + 1)

\* extract_text_pdf adding an entry for every page it reaches, blank or not
extract_text_pdf_padded(pdf) ==
    LET reached == IF pdf.plumber_opens
                   THEN UntilFailure([i \in 1..Len(pdf.pages) |-> pdf.pages[i].direct], 1)
                   ELSE 0
    IN  [j \in 1..reached |-> Entry(pdf.name, j, "pdf", "direct", pdf.pages[j].direct.v)]

\* extract_text_pdf(pdf_path)
extract_text_pdf(pdf) ==
    LET reached == IF pdf.plumber_opens
                   THEN UntilFailure([i \in 1..Len(pdf.pages) |-> pdf.pages[i].direct], 1)
                   ELSE 0
        kept == SelectSeq([i \in 1..reached |-> i],
                          LAMBDA i : HasText(pdf.pages[i].direct.v))
    IN  [j \in 1..Len(kept) |-> Entry(pdf.name, kept[j], "pdf", "direct", pdf.pages[kept[j]].direct.v)]

\* pdf_to_images(pdf_path): (page_number, image) pairs
pdf_to_images(pdf) ==
    LET reached == IF pdf.fitz_opens
                   THEN UntilFailure([i \in 1..Len(pdf.pages) |-> pdf.pages[i].raster], 1)
                   ELSE 0
    IN  [i \in 1..reached |-> [page |-> i, image |-> pdf.pages[i].raster.v]]

\* load_pdf(pdf_path) on a transformer that has an ocr_processor or not
load_pdf(pdf, has_ocr, e) ==
    IF detect_pdf_type(pdf) = "text" THEN extract_text_pdf(pdf)
    ELSE IF ~has_ocr THEN << >>
    ELSE LET images == pdf_to_images(pdf)
             texts == [i \in 1..Len(images) |-> ocr_image(images[i].image, e)]
             kept == SelectSeq([i \in 1..Len(images) |-> i], LAMBDA i : HasText(texts[i]))
         IN  [j \in 1..Len(kept) |-> Entry(pdf.name, images[kept[j]].page, "pdf", "ocr", texts[kept[j]])]

\* load_pdfs_batch(pdf_dir): the entries of every PDF of the directory
RECURSIVE load_pdfs_batch(_, _, _)
load_pdfs_batch(pdfs, has_ocr, e) ==
    IF pdfs = << >> THEN << >>
    ELSE load_pdf(Head(pdfs), has_ocr, e) \o load_pdfs_batch(Tail(pdfs), has_ocr, e)

\* PDFTransformer.transform(pdf_input) on what the file system holds there
pdf_transform(node, has_ocr, e) ==
    IF node.kind = "file" THEN load_pdf(node.pdf, has_ocr, e)
    ELSE IF node.kind = "dir" THEN load_pdfs_batch(node.pdfs, has_ocr, e)
    ELSE << >>

(***************************************************************************)
(* ImageTransformer                                                        *)
(***************************************************************************)
\* load_image(image_path): one entry for page 1, or nothing
load_image(file, e) ==
    IF ~file.opens THEN << >>
    ELSE IF HasText(ocr_image(file.image, e))
         THEN << Entry(file.name, 1, "image", "ocr", ocr_image(file.image, e)) >>
         ELSE << >>

RECURSIVE load_images_batch(_, _)
load_images_batch(files, e) ==
    IF files = << >> THEN << >>
    ELSE load_image(Head(files), e) \o load_images_batch(Tail(files), e)

\* ImageTransformer.transform(image_input)
image_transform(node, e) ==
    IF node.kind = "file" THEN load_image(node.img, e)
    ELSE IF node.kind = "dir" THEN load_images_batch(node.imgs, e)
    ELSE << >>

(***************************************************************************)
(* FeatureExtractor                                                        *)
(*                                                                         *)
(* A profile text holds field tokens: Field(label, raw, n) is a stretch of *)
(* n characters on which the pattern of that label matches with the group  *)
(* raw captured.  A captured group is a sequence of pieces: runs of        *)
(* digits, commas, dots, a minus sign, words.  re.search takes the first   *)
(* match in the text.                                                      *)
(***************************************************************************)
Field(label, raw, n) == [c |-> "field", label |-> label, raw |-> raw, n |-> n]

\* a run of w digits whose value is d
Digits(d, w) == [p |-> "d", id |-> "", d |-> d, w |-> w]
Comma == [p |-> ",", id |-> ",", d |-> 0, w |-> 1]
Dot == [p |-> ".", id |-> ".", d |-> 0, w |-> 1]
Minus == [p |-> "-", id |-> "-", d |-> 0, w |-> 1]
Wd(id) == [p |-> "w", id |-> id, d |-> 0, w |-> 1]

RECURSIVE Pow10(_)
Pow10(k) == IF k = 0 THEN 1 ELSE 10 * Pow10(k - 1)

\* the number written by a sequence of digit runs
RECURSIVE DigitsValue(_)
DigitsValue(ps) ==
    IF ps = << >> THEN 0
    ELSE DigitsValue(SubSeq(ps, 1, Len(ps) - 1)) * Pow10(ps[Len(ps)].w) + ps[Len(ps)].d

RECURSIVE DigitsWidth(_)
DigitsWidth(ps) == IF ps = << >> THEN 0 ELSE Head(ps).w + DigitsWidth(Tail(ps))

\* s.replace(',', '')
replace_comma(raw) == SelectSeq(raw, LAMBDA x : x.p # ",")

\* int(s)
py_int(raw) ==
    IF raw # << >> /\ \A i \in 1..Len(raw) : raw[i].p = "d"
    THEN Ret(DigitsValue(raw))
    ELSE Raise("ValueError")

\* a float num / 10^w, negated when neg, written without trailing zeros in
\* the fraction
RECURSIVE Normalized(_, _)
Normalized(num, w) ==
    IF w > 0 /\ num % 10 = 0 THEN Normalized(num \div 10, w - 1) ELSE [num |-> num, w |-> w]
PyFloat(neg, num, w) ==
    [t |-> "float", neg |-> neg /\ num # 0,
     num |-> Normalized(num, w).num, w |-> Normalized(num, w).w]

\* float(s): an optional sign, digits with at most one dot, at least one digit
py_float(raw) ==
    LET neg  == raw # << >> /\ raw[1].p = "-"
        body == IF neg THEN Tail(raw) ELSE raw
        dots == { i \in 1..Len(body) : body[i].p = "." }
        cut  == IF dots = {} THEN Len(body) + 1 ELSE CHOOSE i \in dots : TRUE
        whole == SubSeq(body, 1, cut - 1)
        frac  == SubSeq(body, cut + 1, Len(body))
    IN  IF /\ Cardinality(dots) <= 1
           /\ \A i \in 1..Len(body) : body[i].p \in {"d", "."}
           /\ \E i \in 1..Len(body) : body[i].p = "d"
        THEN Ret(PyFloat(neg, DigitsValue(whole) * Pow10(DigitsWidth(frac)) + DigitsValue(frac),
                         DigitsWidth(frac)))
        ELSE Raise("ValueError")

NoMatch == [c |-> "none"]

\* re.search(pattern, text): the first field on which one of the labels'
\* patterns matches
RECURSIVE re_search(_, _)
re_search(labels, text) ==
    IF text = << >> THEN NoMatch
    ELSE IF Head(text).c = "field" /\ Head(text).label \in labels THEN Head(text)
    ELSE re_search(labels, Tail(text))

Feat(phrase, arg) == [c |-> "feat", phrase |-> phrase, arg |-> arg]
PyRaw(raw) == [t |-> "raw", s |-> raw]

\* the list one repetition short
Times_one_fewer(k, feature) == [i \in 1..(k - 1) |-> feature]

\* [feature] * k
Times(k, feature) == [i \in 1..k |-> feature]

\* a field captured as is and repeated k times
Verbatim(labels, text, phrase, k) ==
    LET m == re_search(labels, text)
    IN  IF m = NoMatch THEN << >> ELSE Times(k, Feat(phrase, PyRaw(m.raw)))

\* a (\d+) field converted by int() and repeated k times
Counted(labels, text, phrase, k) ==
    LET m == re_search(labels, text)
    IN  IF m = NoMatch THEN << >> ELSE Times(k, Feat(phrase, PyInt(DigitsValue(m.raw))))

\* a Yes/No field, compared in lower case
YesNo(labels, text, yes, no, k) ==
    LET m == re_search(labels, text)
    IN  IF m = NoMatch THEN << >>
        ELSE Times(k, Feat(IF m.raw[1].id \in {"Yes", "yes", "YES"} THEN yes ELSE no, PyNone))

\* a ([\d,]+) field with the commas removed, repeated k times
Amount(labels, text, phrase, k) ==
    LET m == re_search(labels, text)
    IN  IF m = NoMatch THEN << >> ELSE Times(k, Feat(phrase, PyRaw(replace_comma(m.raw))))

\* the same, converted by int() first: the conversion may raise
AmountValue(labels, text) ==
    LET m == re_search(labels, text)
    IN  IF m = NoMatch THEN Ret(PyNone)
        ELSE LET v == py_int(replace_comma(m.raw))
             IN  IF v.ok THEN Ret(PyInt(v.v)) ELSE v

\* the phrase for zero repeated as often as the phrase for a count
ZeroState_same_weight(labels, text, phrase, k, zero_phrase, zero_k) ==
    LET m == re_search(labels, text)
    IN  IF m = NoMatch THEN << >>
        ELSE IF DigitsValue(m.raw) > 0
             THEN Times(k, Feat(phrase, PyInt(DigitsValue(m.raw))))
             ELSE Times(k, Feat(zero_phrase, PyNone))

\* a count field with a phrase for zero
ZeroState(labels, text, phrase, k, zero_phrase, zero_k) ==
    LET m == re_search(labels, text)
    IN  IF m = NoMatch THEN << >>
        ELSE IF DigitsValue(m.raw) > 0
             THEN Times(k, Feat(phrase, PyInt(DigitsValue(m.raw))))
             ELSE Times(zero_k, Feat(zero_phrase, PyNone))

\* a ([\d.]+)% field converted by float(): the conversion may raise
Percent(labels, text, phrase, k) ==
    LET m == re_search(labels, text)
    IN  IF m = NoMatch THEN Ret(<< >>)
        ELSE LET v == py_float(m.raw)
             IN  IF v.ok THEN Ret(Times(k, Feat(phrase, v.v))) ELSE v

\* Average Payment Delay: early, on time or late
Delay(text) ==
    LET m == re_search({"Average Payment Delay"}, text)
    IN  IF m = NoMatch THEN Ret(<< >>)
        ELSE LET v == py_float(m.raw)
             IN  IF ~v.ok THEN v
                 ELSE IF v.v.neg
                      THEN Ret(Times(10, Feat("early payments", [v.v EXCEPT !.neg = FALSE])))
                 ELSE IF v.v.num = 0 THEN Ret(Times(10, Feat("on-time payments", PyNone)))
                 ELSE Ret(Times(10, Feat("late payments", v.v)))

\* the text of a [^\n]+ group after .strip()
RECURSIVE strip_raw(_)
strip_raw(raw) ==
    IF raw # << >> /\ Head(raw).p = " " THEN strip_raw(Tail(raw))
    ELSE IF raw # << >> /\ raw[Len(raw)].p = " " THEN strip_raw(SubSeq(raw, 1, Len(raw) - 1))
    ELSE raw

Line(labels, text, phrase, k) ==
    LET m == re_search(labels, text)
    IN  IF m = NoMatch THEN << >> ELSE Times(k, Feat(phrase, PyRaw(strip_raw(m.raw))))

\* an amount that is converted by int() before its phrase is added
ConvertedAmount(labels, text, phrase, k) ==
    IF AmountValue(labels, text).ok THEN Ret(Amount(labels, text, phrase, k))
    ELSE AmountValue(labels, text)

L_age == "Age: years"
L_car_age == "(age: years)"

\* the extraction steps of extract_key_features in source order (lines 41-226),
\* each the features it appends or the exception it raises
Steps(text) ==
    << Ret(Counted({L_age, L_car_age}, text, "age {} years", 1)),
       Ret(Verbatim({"Gender"}, text, "gender {}", 1)),
       Ret(Line({"Education Level"}, text, "education {}", 1)),
       Ret(Line({"Family Status"}, text, "family status {}", 2)),
       Ret(Counted({"Number of Children"}, text, "{} children", 3)),
       Ret(Counted({"Household Size"}, text, "household size {}", 2)),
       Ret(Line({"Housing Type"}, text, "housing {}", 2)),
       Ret(YesNo({"Owns Real Estate"}, text, "owns real estate", "no real estate", 3)),
       Ret(YesNo({"Owns a Car"}, text, "owns car", "no car", 3)),
       Ret(Counted({L_car_age}, text, "car age {} years", 1)),
       Ret(Line({"Income Type"}, text, "income type {}", 2)),
       Ret(Line({"Occupation"}, text, "occupation {}", 3)),
       Ret(Counted({"Years Employed"}, text, "employed {} years", 5)),
       ConvertedAmount({"Annual Income"}, text, "income ${}", 5),
       Ret(Line({"Contract Type"}, text, "contract {}", 2)),
       Ret(Amount({"Requested Credit Amount"}, text, "requesting ${}", 3)),
       Ret(Amount({"Monthly Annuity"}, text, "monthly payment ${}", 3)),
       Ret(Amount({"Average Previous Credit Amount"}, text, "previous credit ${}", 4)),
       Percent({"Approval Rate"}, text, "approval rate {}%", 8),
       Ret(Counted({"Active External Credits"}, text, "{} active credits", 5)),
       ConvertedAmount({"Total External Credit Amount"}, text, "external credit ${}", 5),
       ConvertedAmount({"Total Outstanding Debt"}, text, "outstanding debt ${}", 10),
       Ret(Amount({"Historical Maximum Overdue Amount"}, text, "max overdue amount ${}", 7)),
       Delay(text),
       Percent({"Payment Completion Ratio"}, text, "payment completion {}%", 12),
       Ret(ZeroState({"Current Overdue Days"}, text, "currently overdue {} days", 10,
                     "no current overdue", 10)),
       Ret(ZeroState({"Historical Maximum Overdue Days"}, text, "max overdue {} days", 12,
                     "no historical overdue", 8)),
       Ret(ZeroState({"Total Credit Prolongations"}, text, "{} prolongations", 6,
                     "no prolongations", 4)) >>

\* the features of the steps from i on, or the first exception
RECURSIVE Gather(_, _)
Gather(steps, i) ==
    IF i > Len(steps) THEN Ret(<< >>)
    ELSE IF ~steps[i].ok THEN steps[i]
    ELSE LET rest == Gather(steps, i + 1)
         IN  IF rest.ok THEN Ret(steps[i].v \o rest.v) ELSE rest

\* f"{x:.1f}" of num/den: tenths, rounded to nearest (ties to even)
Fixed1(num, den) ==
    LET q == (num * 10) \div den
        r == (num * 10) % den
    IN  [t |-> "fixed1",
         tenths |-> IF 2 * r > den \/ (2 * r = den /\ q % 2 = 1) THEN q + 1 ELSE q]

\* the ratio is left out when the debt is zero
debt_to_income_needs_debt(income_value, debt_value) ==
    IF ~(Truthy(income_value) /\ income_value.n > 0 /\ Truthy(debt_value)) THEN << >>
    ELSE LET debt == debt_value.n
             income == income_value.n
             shown == Fixed1(debt * 100, income)
         IN  IF debt * 100 < 20 * income
                  THEN Times(15, Feat("debt-to-income {}% low debt", shown))
             ELSE IF debt * 100 < 40 * income
                  THEN Times(15, Feat("debt-to-income {}% moderate debt", shown))
             ELSE IF debt * 100 < 60 * income
                  THEN Times(15, Feat("debt-to-income {}% high debt", shown))
             ELSE Times(15, Feat("debt-to-income {}% very high debt", shown))

\* debt-to-income (lines 228-240): debt / income * 100 against 0, 20, 40, 60
debt_to_income(income_value, debt_value) ==
    IF ~(Truthy(income_value) /\ income_value.n > 0 /\ debt_value # PyNone) THEN << >>
    ELSE LET debt == debt_value.n
             income == income_value.n
             shown == Fixed1(debt * 100, income)
         IN  IF debt * 100 = 0 THEN Times(15, Feat("debt-to-income 0% no debt", PyNone))
             ELSE IF debt * 100 < 20 * income
                  THEN Times(15, Feat("debt-to-income {}% low debt", shown))
             ELSE IF debt * 100 < 40 * income
                  THEN Times(15, Feat("debt-to-income {}% moderate debt", shown))
             ELSE IF debt * 100 < 60 * income
                  THEN Times(15, Feat("debt-to-income {}% high debt", shown))
             ELSE Times(15, Feat("debt-to-income {}% very high debt", shown))

\* the thresholds taken with <= : 30 counts as low and 60 as moderate
credit_utilization_inclusive(external_credit_value, debt_value) ==
    IF ~(Truthy(external_credit_value) /\ external_credit_value.n > 0 /\ debt_value # PyNone)
    THEN << >>
    ELSE LET debt == debt_value.n
             external == external_credit_value.n
             shown == Fixed1(debt * 100, external)
         IN  IF debt * 100 = 0 THEN Times(12, Feat("credit utilization 0% fully paid", PyNone))
             ELSE IF debt * 100 <= 30 * external
                  THEN Times(12, Feat("credit utilization {}% low", shown))
             ELSE IF debt * 100 <= 60 * external
                  THEN Times(12, Feat("credit utilization {}% moderate", shown))
             ELSE Times(12, Feat("credit utilization {}% high", shown))

\* credit utilization (lines 242-252): debt / external credit * 100 against 0, 30, 60
credit_utilization(external_credit_value, debt_value) ==
    IF ~(Truthy(external_credit_value) /\ external_credit_value.n > 0 /\ debt_value # PyNone)
    THEN << >>
    ELSE LET debt == debt_value.n
             external == external_credit_value.n
             shown == Fixed1(debt * 100, external)
         IN  IF debt * 100 = 0 THEN Times(12, Feat("credit utilization 0% fully paid", PyNone))
             ELSE IF debt * 100 < 30 * external
                  THEN Times(12, Feat("credit utilization {}% low", shown))
             ELSE IF debt * 100 < 60 * external
                  THEN Times(12, Feat("credit utilization {}% moderate", shown))
             ELSE Times(12, Feat("credit utilization {}% high", shown))

FallbackChars == 500

\* text[:k]
RECURSIVE Prefix(_, _)
Prefix(s, k) ==
    IF s = << >> \/ k = 0 THEN << >>
    ELSE IF Head(s).n <= k THEN <<Head(s)>> \o Prefix(Tail(s), k - Head(s).n)
    ELSE IF Head(s).c = "ws" THEN << WS(k) >>
    ELSE << W("cut", k) >>

\* " ".join(parts)
Join(parts) ==
    [i \in 1..(2 * Len(parts) - 1) |-> IF i % 2 = 1 THEN parts[(i + 1) \div 2] ELSE WS(1)]

\* lines 228-260 on the features gathered by the steps and the three amounts
\* kept by them
derived_features(text, gathered, income_value, debt_value, external_credit_value) ==
    LET features == gathered.v \o debt_to_income(income_value, debt_value)
                               \o credit_utilization(external_credit_value, debt_value)
    IN  IF ~gathered.ok THEN gathered
        ELSE IF features = << >> THEN Ret(PyStr(Prefix(text.s, FallbackChars)))
        ELSE Ret(PyStr(Join(features)))

\* extract_key_features(text): the feature text, or the exception of the
\* first conversion that fails
extract_key_features(text) ==
    derived_features(text, Gather(Steps(text.s), 1),
                     AmountValue({"Annual Income"}, text.s).v,
                     AmountValue({"Total Outstanding Debt"}, text.s).v,
                     AmountValue({"Total External Credit Amount"}, text.s).v)

(***************************************************************************)
(* QueryRouter: detect_query_type, the document routes, route              *)
(*                                                                         *)
(* A path is a str or a Path whose last token is its suffix when the id of *)
(* that token is an extension; node is what the file system holds there.   *)
(***************************************************************************)
PyPath(s) == [t |-> "Path", s |-> s]

ExtensionIds ==
    {".pdf", ".PDF", ".png", ".PNG", ".jpg", ".jpeg", ".bmp", ".tiff", ".txt", ".gif"}

\* Path(p).suffix: a name that is only an extension has none
suffix(s) ==
    IF Len(s) >= 2 /\ s[Len(s)].c = "ch" /\ s[Len(s)].id \in ExtensionIds
    THEN s[Len(s)].id ELSE ""

\* str.lower() on a suffix
lower(id) ==
    CASE id = ".PDF" -> ".pdf"
      [] id = ".PNG" -> ".png"
      [] OTHER       -> id

ImageSuffixes == {".png", ".jpg", ".jpeg", ".bmp", ".tiff"}

\* detect_query_type classifying every str by its suffix, existing or not
detect_query_type_by_suffix(query, node) ==
    IF query.t \notin {"str", "Path"} THEN "text"
    ELSE IF lower(suffix(query.s)) = ".pdf" THEN "pdf"
    ELSE IF lower(suffix(query.s)) \in ImageSuffixes THEN "image"
    ELSE "text"

\* detect_query_type(query)
detect_query_type(query, node) ==
    IF query.t = "str" /\ node.kind = "missing" THEN "text"
    ELSE IF query.t \notin {"str", "Path"} THEN "text"
    ELSE IF lower(suffix(query.s)) = ".pdf" THEN "pdf"
    ELSE IF lower(suffix(query.s)) \in ImageSuffixes THEN "image"
    ELSE "text"

K_source_type == <<"source_type">>

\* " ".join([page['text'] for page in extracted_data])
RECURSIVE join_pages(_)
join_pages(entries) ==
    IF entries = << >> THEN << >>
    ELSE IF Len(entries) = 1 THEN entries[1].text.s
    ELSE entries[1].text.s \o << WS(1) >> \o join_pages(Tail(entries))

\* annotate_pdf marking the result as coming from an image query
annotate_pdf_as_image(result, name, pages) ==
    [client_id |-> result.client_id, score |-> result.score, target |-> result.target,
     text |-> result.text, payload |-> result.payload, metadata |-> result.metadata,
     query_type |-> "image", query_file |-> name, query_pages_extracted |-> pages,
     source_type |-> dict_get(result.payload.m, K_source_type, PyStr(<<W("text", 4)>>))]

\* the metadata the PDF route adds to a result (lines 202-207)
annotate_pdf(result, name, pages) ==
    [client_id |-> result.client_id, score |-> result.score, target |-> result.target,
     text |-> result.text, payload |-> result.payload, metadata |-> result.metadata,
     query_type |-> "pdf", query_file |-> name, query_pages_extracted |-> pages,
     source_type |-> dict_get(result.payload.m, K_source_type, PyStr(<<W("text", 4)>>))]

\* the metadata the image route adds to a result (lines 252-256)
annotate_image(result, name) ==
    [client_id |-> result.client_id, score |-> result.score, target |-> result.target,
     text |-> result.text, payload |-> result.payload, metadata |-> result.metadata,
     query_type |-> "image", query_file |-> name,
     source_type |-> dict_get(result.payload.m, K_source_type, PyStr(<<W("text", 4)>>))]

\* the results of the retrieval call with the metadata of the route added
annotated(found_out, kind, name, pages) ==
    IF ~found_out.ok THEN found_out
    ELSE Ret([i \in 1..Len(found_out.v) |->
                IF kind = "pdf" THEN annotate_pdf(found_out.v[i], name, pages)
                ELSE annotate_image(found_out.v[i], name)])

\* document_search without the early return on empty extracted_data
document_search_always(r, kind, name, extracted_data, feature_text, top_k, filter_conditions, db) ==
    [llm |-> r.llm, llm_calls |-> 0, parsed |-> NotCalled, extracted |-> extracted_data,
     search_calls |-> << [query |-> feature_text.v, top_k |-> top_k,
                          filter_conditions |-> filter_conditions] >>,
     requests |-> search(feature_text.v, top_k, filter_conditions, db).requests,
     out |-> annotated(search(feature_text.v, top_k, filter_conditions, db).out,
                       kind, name, Len(extracted_data))]

\* document_search leaving the caller's filters out of the retrieval call
document_search_without_filters(r, kind, name, extracted_data, feature_text, top_k, filter_conditions, db) ==
    LET none == [llm |-> r.llm, llm_calls |-> 0, parsed |-> NotCalled,
                 extracted |-> extracted_data,
                 search_calls |-> << >>, requests |-> << >>, out |-> Ret(<< >>)]
    IN  IF extracted_data = << >> THEN none
        ELSE IF ~feature_text.ok THEN [none EXCEPT !.out = feature_text]
        ELSE [none EXCEPT
                !.search_calls = << [query |-> feature_text.v, top_k |-> top_k,
                                     filter_conditions |-> PyNone] >>,
                !.requests = search(feature_text.v, top_k, PyNone, db).requests,
                !.out = annotated(search(feature_text.v, top_k, PyNone, db).out,
                                  kind, name, Len(extracted_data))]

\* lines 185-210 and 235-259: from the extracted entries to the results;
\* feature_text is what extract_key_features gives for their text
document_search(r, kind, name, extracted_data, feature_text, top_k, filter_conditions, db) ==
    LET none == [llm |-> r.llm, llm_calls |-> 0, parsed |-> NotCalled,
                 extracted |-> extracted_data,
                 search_calls |-> << >>, requests |-> << >>, out |-> Ret(<< >>)]
    IN  IF extracted_data = << >> THEN none
        ELSE IF ~feature_text.ok THEN [none EXCEPT !.out = feature_text]
        ELSE [none EXCEPT
                !.search_calls = << [query |-> feature_text.v, top_k |-> top_k,
                                     filter_conditions |-> filter_conditions] >>,
                !.requests = search(feature_text.v, top_k, filter_conditions, db).requests,
                !.out = annotated(search(feature_text.v, top_k, filter_conditions, db).out,
                                  kind, name, Len(extracted_data))]

\* the text handed to extract_key_features: the pages joined (line 190) or
\* the text of the image (line 239)
combined_text(kind, extracted_data) ==
    IF kind = "pdf" THEN PyStr(join_pages(extracted_data))
    ELSE IF extracted_data = << >> THEN EmptyStr
    ELSE extracted_data[1].text

\* the part the two document routes share, from the entries the transformer
\* returned
document_query(r, kind, name, extracted_data, top_k, filter_conditions, db) ==
    document_search(r, kind, name, extracted_data,
                    extract_key_features(combined_text(kind, extracted_data)),
                    top_k, filter_conditions, db)

\* process_pdf_query(pdf_path, top_k, filter_conditions)
process_pdf_query(r, e, pdf_path, node, top_k, filter_conditions, db) ==
    document_query(r, "pdf", pdf_path.s, pdf_transform(node, TRUE, e),
                   top_k, filter_conditions, db)

\* process_image_query(image_path, top_k, filter_conditions)
process_image_query(r, e, image_path, node, top_k, filter_conditions, db) ==
    document_query(r, "image", image_path.s, image_transform(node, e),
                   top_k, filter_conditions, db)

\* route failing a document query when the LLM client cannot be built
route_needs_llm(r, e, query, node, top_k, filter_conditions, resp, db) ==
    LET query_type == detect_query_type(query, node)
    IN  IF query_type = "text"
        THEN [extracted |-> << >>] @@
             process_text_query(r, e, query, top_k, filter_conditions, TRUE, resp, db)
        ELSE IF r.query_understanding /\ ~r.llm /\ ~initialize_llm(e).ok
        THEN [llm |-> r.llm, llm_calls |-> 0, parsed |-> NotCalled, extracted |-> << >>,
              search_calls |-> << >>, requests |-> << >>,
              out |-> Raise(initialize_llm(e).exc)]
        ELSE IF query_type = "pdf"
        THEN process_pdf_query(r, e, query, node, top_k, filter_conditions, db)
        ELSE process_image_query(r, e, query, node, top_k, filter_conditions, db)

\* route(query, top_k, filter_conditions)
route(r, e, query, node, top_k, filter_conditions, resp, db) ==
    LET query_type == detect_query_type(query, node)
    IN  IF query_type = "text"
        THEN [extracted |-> << >>] @@
             process_text_query(r, e, query, top_k, filter_conditions, TRUE, resp, db)
        ELSE IF query_type = "pdf"
        THEN process_pdf_query(r, e, query, node, top_k, filter_conditions, db)
        ELSE process_image_query(r, e, query, node, top_k, filter_conditions, db)

(***************************************************************************)
(* Inputs of the text route                                                *)
(***************************************************************************)
K_gender == <<"CODE_GENDER">>
K_birth_range == <<"DAYS_BIRTH", RangeSuffix>>

RangeGte == PyDict(K_gte :> PyInt(-12000))
RangeNull == PyDict(K_gte :> PyNone @@ K_lte :> PyNone)

\* every dict whose keys are some of DOMAIN choices and whose value at k is
\* one of choices[k]
DictsOver(choices) ==
    { PyDict(m) : m \in { f \in UNION { [D -> UNION { choices[k] : k \in D }] :
                                        D \in SUBSET DOMAIN choices } :
                          \A k \in DOMAIN f : f[k] \in choices[k] } }

ExplicitFilters ==
    {PyNone} \cup { f \in DictsOver(K_target :> {PyInt(0)} @@ K_birth_range :> {RangeGte, RangeNull}) :
                      K_birth_range \in DOMAIN f.m /\ K_target \in DOMAIN f.m
                        => f.m[K_birth_range] = RangeGte }

IntentFilters ==
    DictsOver(K_target :> {PyInt(1)} @@ K_gender :> {PyStr(<<W("F", 1)>>)}
              @@ K_birth_range :> {RangeNull})

RawQuery == PyStr(<<W("clients who defaulted", 21)>>)
CleanQuery == PyStr(<<W("payment history", 15)>>)
TextQueries == {RawQuery, PyStr(<<>>)}

TopKs == 1..MaxTopK

DetectedList == PyList(<<PyStr(<<W("Payment Status: DEFAULTED", 25)>>)>>)
FullIntent ==
    PyDict(K_target :> PyInt(1) @@ K_gender :> PyStr(<<W("F", 1)>>) @@ K_birth_range :> RangeNull)

\* the JSON objects the service may answer with: every intent filter map with
\* a cleaned query, and objects whose fields are missing, empty, null or of
\* another type
LLMObjects ==
    { PyDict(K_search_query :> CleanQuery @@ K_filters :> f) : f \in IntentFilters }
    \cup { PyDict(K_search_query :> q @@ K_filters :> FullIntent) :
             q \in {PyNone, PyStr(<<>>)} }
    \cup { PyDict(K_filters :> FullIntent), PyDict(<<>>), PyDict(K_search_query :> CleanQuery) }
    \cup { PyDict(K_search_query :> CleanQuery @@ K_filters :> f) :
             f \in {PyNone, PyList(<<PyInt(1)>>)} }
    \cup { PyDict(K_search_query :> CleanQuery @@ K_filters :> FullIntent
                  @@ K_detected_attributes :> d) : d \in {DetectedList, PyInt(3)} }

\* the objects that are also sent inside a code fence
FencedObjects ==
    { o \in LLMObjects : /\ DOMAIN o.m = {K_search_query, K_filters}
                         /\ o.m[K_search_query] = CleanQuery
                         /\ o.m[K_filters].t = "dict" }

\* the contents of a reply: a JSON object bare or inside a code fence, JSON
\* that is not an object, text that is not JSON, content that is not a str
LLMContents ==
    { PyStr(<<JsonText(o)>>) : o \in LLMObjects }
    \cup { PyStr(<<Fence, JsonTag, WS(1), JsonText(o), WS(1), Fence>>) : o \in FencedObjects }
    \cup { PyStr(<<Fence, WS(1), JsonText(o), WS(1), Fence>>) : o \in FencedObjects }
    \cup { PyStr(<<JsonText(PyList(<<PyInt(1)>>))>>),
           PyStr(<<W("Sure! Here is the JSON:", 23), WS(1), JsonText(PyDict(<<>>))>>),
           PyStr(<<>>),
           PyList(<<PyInt(1)>>) }

LLMResponses == { Ret(c) : c \in LLMContents } \cup { Raise("TimeoutError") }

\* the points the collection holds
Point(i) ==
    [id |-> i, score |-> 100 - i,
     payload |-> PyDict(K_client_id :> PyInt(100000 + i) @@ K_target :> PyInt(i % 2)
                        @@ K_text :> PyStr(<<W("profile", 7)>>))]
Points == { Point(1), Point(2) }

RECURSIVE SeqsUpTo(_, _)
SeqsUpTo(S, n) ==
    IF n = 0 THEN { << >> }
    ELSE SeqsUpTo(S, n - 1) \cup { Append(q, x) : q \in { p \in SeqsUpTo(S, n - 1) : Len(p) = n - 1 }, x \in S }

\* what query_points may do for a request of the given limit
DBResponses(limit) ==
    { Ret(ps) : ps \in SeqsUpTo(Points, limit) } \cup { Raise("RetrievalFailure") }

Unused == [ok |-> FALSE, exc |-> "unused"]
Idle == [op |-> "idle"]

(***************************************************************************)
(* Inputs of the document routes                                           *)
(***************************************************************************)
\* what the engines report for a page image
Scan(text, conf, easy_text) ==
    [tess |-> Ret([text |-> text, conf |-> conf]), easy |-> Ret(easy_text)]
Unreadable == [tess |-> Raise("TesseractError"), easy |-> Raise("RuntimeError")]

IncomeField == Field("Annual Income", <<Digits(60, 2), Comma, Digits(0, 3)>>, 22)
DebtField == Field("Total Outstanding Debt", <<Digits(12, 2), Comma, Digits(0, 3)>>, 30)
CompletionField == Field("Payment Completion Ratio", <<Digits(100, 3), Dot, Digits(0, 1)>>, 32)
BadIncomeField == Field("Annual Income", <<Comma>>, 16)

ProfileText == PyStr(<<IncomeField, WS(1), DebtField, WS(1), CompletionField>>)
BadProfileText == PyStr(<<BadIncomeField, WS(1), DebtField, WS(1), CompletionField>>)
PlainText == PyStr(<<W("letter", 60)>>)
ShortText == PyStr(<<W("stamp", 20)>>)

Page(direct, raster) == [direct |-> direct, raster |-> raster]
BlankPage == Page(Ret(PyNone), Ret(Scan(EmptyStr, << >>, EmptyStr)))

Pdf(name, plumber_opens, fitz_opens, pages) ==
    [name |-> name, plumber_opens |-> plumber_opens, fitz_opens |-> fitz_opens,
     pages |-> pages]

PdfName == <<W("client", 6), W(".pdf", 4)>>
ImageName == <<W("scan", 4), W(".png", 4)>>

RoutePdfs ==
    { Pdf(PdfName, TRUE, TRUE, <<Page(Ret(ProfileText), Ret(Scan(EmptyStr, << >>, EmptyStr))),
                                 Page(Ret(PlainText), Ret(Scan(EmptyStr, << >>, EmptyStr)))>>),
      Pdf(PdfName, TRUE, TRUE, <<Page(Ret(BadProfileText), Ret(Scan(EmptyStr, << >>, EmptyStr)))>>),
      Pdf(PdfName, TRUE, TRUE, <<Page(Ret(PlainText), Ret(Scan(EmptyStr, << >>, EmptyStr)))>>),
      Pdf(PdfName, TRUE, TRUE, <<Page(Ret(ShortText), Ret(Scan(ProfileText, <<45>>, PlainText))),
                                 BlankPage>>),
      Pdf(PdfName, TRUE, TRUE, <<BlankPage, BlankPage>>),
      Pdf(PdfName, TRUE, TRUE, << >>),
      Pdf(PdfName, FALSE, FALSE, << >>) }

Image(name, opens, image) == [name |-> name, opens |-> opens, image |-> image]

RouteImages ==
    { Image(ImageName, TRUE, Scan(ProfileText, <<90>>, EmptyStr)),
      Image(ImageName, TRUE, Scan(ShortText, <<45>>, PlainText)),
      Image(ImageName, TRUE, Scan(PyStr(<<WS(2)>>), << >>, EmptyStr)),
      Image(ImageName, FALSE, Unreadable) }

Missing == [kind |-> "missing"]

\* the queries given to route, each with what the file system holds at that path
RouteInputs ==
    { [query |-> q, node |-> Missing] : q \in TextQueries }
    \cup { [query |-> PyStr(PdfName), node |-> Missing] }
    \cup { [query |-> PyStr(PdfName), node |-> [kind |-> "file", pdf |-> d]] : d \in RoutePdfs }
    \cup { [query |-> PyPath(PdfName), node |-> [kind |-> "file", pdf |-> d]] :
             d \in { x \in RoutePdfs : ~x.fitz_opens } }
    \cup { [query |-> PyStr(PdfName), node |-> [kind |-> "dir", pdfs |-> <<d, d>>]] :
             d \in { x \in RoutePdfs : Len(x.pages) = 1 /\ x.pages[1].direct.v = PlainText } }
    \cup { [query |-> PyStr(ImageName), node |-> [kind |-> "file", img |-> i]] : i \in RouteImages }

(***************************************************************************)
(* The system                                                              *)
(***************************************************************************)
Environment(key, mistral, easyocr) ==
    [MISTRAL_API_KEY |-> key, langchain_mistralai |-> mistral, easyocr |-> easyocr]

\* the environments of the process and the router built in each: everything
\* present, no EasyOCR, no API key, no Mistral package, and a router built
\* with use_llm_understanding=False
Configurations ==
    { [env |-> Environment(TRUE, TRUE, TRUE), query_understanding |-> TRUE],
      [env |-> Environment(TRUE, TRUE, FALSE), query_understanding |-> TRUE],
      [env |-> Environment(FALSE, TRUE, TRUE), query_understanding |-> TRUE],
      [env |-> Environment(TRUE, FALSE, TRUE), query_understanding |-> TRUE],
      [env |-> Environment(TRUE, TRUE, TRUE), query_understanding |-> FALSE] }

Threads == 1..NumThreads

\* the callers that share the router
Callers == {"a", "b"}

\* QdrantRetriever.__init__ accepts host, port, collection_name, model_name
QdrantRetriever_init(keywords) ==
    IF keywords \subseteq {"host", "port", "collection_name", "model_name"}
    THEN Ret("QdrantRetriever") ELSE Raise("TypeError")

\* a fresh process: no thread is inside a call, the module globals
\* _retriever_singleton, _router_singleton and _easyocr_reader are None,
\* _singleton_lock is free, nothing has been constructed; caller[t] is the
\* function thread t called get_qdrant_retriever from; held[c] is the
\* filter_conditions object caller c keeps between its calls and made[c]
\* its contents when the caller made it
Started ==
    [pc |-> [t \in Threads |-> "idle"],
     caller |-> [t \in Threads |-> "none"],
     retriever_singleton |-> FALSE,
     router_singleton |-> FALSE,
     held |-> [c \in Callers |-> PyNone],
     made |-> [c \in Callers |-> PyNone],
     easyocr_reader |-> FALSE,
     singleton_lock |-> 0,
     constructed |-> [retriever |-> 0, easyocr_reader |-> 0, llm |-> 0],
     raised |-> [t \in Threads |-> "none"]]

Init ==
    /\ \E c \in Configurations :
          /\ env = c.env
          /\ router = [query_understanding |-> c.query_understanding, llm |-> FALSE]
    /\ last = Idle
    /\ process = Started

\* route(query, top_k, filter_conditions); the LLM answers only when it is
\* invoked and the database only when a request is dispatched
Route ==
    /\ last = Idle
    /\ \E input \in RouteInputs, top_k \in TopKs, fc \in ExplicitFilters :
         \E resp \in IF /\ detect_query_type(input.query, input.node) = "text"
                        /\ router.query_understanding
                        /\ (router.llm \/ initialize_llm(env).ok)
                     THEN LLMResponses ELSE {Unused} :
           \E db \in IF route(router, env, input.query, input.node, top_k, fc, resp,
                              Unused).requests # << >>
                     THEN DBResponses(top_k) ELSE {Unused} :
              \E r \in {route(router, env, input.query, input.node, top_k, fc, resp, db)} :
                  /\ router' = [router EXCEPT !.llm = r.llm]
                  /\ last' = [op |-> "route",
                              kind |-> detect_query_type(input.query, input.node),
                              query |-> input.query, node |-> input.node,
                              top_k |-> top_k, filter_conditions |-> fc,
                              resp |-> resp, db |-> db,
                              parsed |-> r.parsed, llm_calls |-> r.llm_calls,
                              extracted |-> r.extracted,
                              search_calls |-> r.search_calls, requests |-> r.requests,
                              out |-> r.out]
    /\ UNCHANGED <<env, process>>

\* the caller takes the outcome
Return ==
    /\ last # Idle
    /\ last' = Idle
    /\ UNCHANGED <<env, router, process>>

Next == Route \/ Return

Spec == Init /\ [][Next]_vars

(***************************************************************************)
(* PDFTransformer.load_pdf called on its own                               *)
(***************************************************************************)
OcrText == PyStr(<<W("ocr", 30)>>)
Rastered == Ret(Scan(OcrText, <<90>>, EmptyStr))

\* the pages of a PDF: no text layer, 25 characters, 26 characters inside
\* leading and trailing blanks on a page whose image OCRs to blanks only, two
\* words of 20 around 20 blanks, a page on
\* which extract_text() fails, and a page without text layer that cannot be
\* rasterised
LoadPages ==
    { Page(Ret(PyNone), Rastered),
      Page(Ret(PyStr(<<W("a", 25)>>)), Rastered),
      Page(Ret(PyStr(<<WS(2), W("b", 26), WS(2)>>)),
           Ret(Scan(PyStr(<<WS(3)>>), << >>, EmptyStr))),
      Page(Ret(PyStr(<<W("c", 20), WS(20), W("d", 20)>>)), Rastered),
      Page(Raise("PDFSyntaxError"), Rastered),
      Page(Ret(PyNone), Raise("RuntimeError")) }

LoadPdfs ==
    { Pdf(PdfName, TRUE, TRUE, pages) : pages \in SeqsUpTo(LoadPages, MaxPages) }
    \cup { Pdf(PdfName, FALSE, TRUE, <<Page(Ret(PlainText), Rastered)>>) }

LoadPdf ==
    /\ last = Idle
    /\ \E pdf \in LoadPdfs, has_ocr \in BOOLEAN :
          last' = [op |-> "load_pdf", pdf |-> pdf, has_ocr |-> has_ocr,
                   pdf_type |-> detect_pdf_type(pdf),
                   out |-> load_pdf(pdf, has_ocr, env)]
    /\ UNCHANGED <<env, router, process>>

NextPdf == LoadPdf \/ Return

SpecPdf == Init /\ [][NextPdf]_vars

(***************************************************************************)
(* OCRProcessor.ocr_image called on its own                                *)
(***************************************************************************)
TessText(n) == IF n = 0 THEN EmptyStr ELSE PyStr(<<W("tess", n)>>)
EasyText(n) == IF n = 0 THEN EmptyStr ELSE PyStr(<<W("easy", n)>>)

\* the token confidences pytesseract reports (-1 marks a block without text)
Confidences == { << >>, <<45>>, <<59>>, <<60>>, <<59, 60>>, <<59, 61>>, <<-1, 70>>, <<-1>>, <<90>> }
TextLengths == {0, 60, 80}

OcrImages ==
    { Scan(TessText(a), conf, EasyText(b)) :
        a \in TextLengths, conf \in Confidences, b \in TextLengths }
    \cup { Unreadable,
           [tess |-> Raise("TesseractError"), easy |-> Ret(EasyText(80))],
           [tess |-> Ret([text |-> TessText(60), conf |-> <<45>>]),
            easy |-> Raise("RuntimeError")] }

OcrImage ==
    /\ last = Idle
    /\ \E image \in OcrImages :
          last' = [op |-> "ocr_image", image |-> image, out |-> ocr_image(image, env)]
    /\ UNCHANGED <<env, router, process>>

NextOcr == OcrImage \/ Return

SpecOcr == Init /\ [][NextOcr]_vars

(***************************************************************************)
(* QueryRouter.detect_query_type called on its own                         *)
(***************************************************************************)
ExtensionToken(id) == W(id, IF id \in {".jpeg", ".tiff"} THEN 5 ELSE 4)

\* strs and Paths with every extension, a plain question, a name that is
\* only an extension, and values that are neither str nor Path
DetectQueries ==
    { PyStr(<<W("client", 6), ExtensionToken(x)>>) : x \in ExtensionIds }
    \cup { PyPath(<<W("client", 6), ExtensionToken(x)>>) : x \in ExtensionIds }
    \cup { RawQuery, PyStr(<< >>), PyStr(<<W(".pdf", 4)>>), PyPath(<<W("client", 6)>>),
           PyInt(5), PyNone, PyList(<<PyInt(1)>>) }

DetectNodes == { Missing, [kind |-> "file"], [kind |-> "dir"] }

DetectQueryType ==
    /\ last = Idle
    /\ \E query \in DetectQueries, node \in DetectNodes :
          last' = [op |-> "detect_query_type", query |-> query, node |-> node,
                   out |-> detect_query_type(query, node)]
    /\ UNCHANGED <<env, router, process>>

NextDetect == DetectQueryType \/ Return

SpecDetect == Init /\ [][NextDetect]_vars

(***************************************************************************)
(* FeatureExtractor.extract_key_features called on its own                 *)
(***************************************************************************)
ExternalField == Field("Total External Credit Amount", <<Digits(48, 2), Comma, Digits(0, 3)>>, 36)
EarlyField == Field("Average Payment Delay", <<Minus, Digits(2, 1), Dot, Digits(5, 1)>>, 32)
OnTimeField == Field("Average Payment Delay", <<Digits(0, 1)>>, 29)
PartialField == Field("Payment Completion Ratio", <<Digits(87, 2), Dot, Digits(5, 1)>>, 31)
BadCompletionField ==
    Field("Payment Completion Ratio",
          <<Digits(1, 1), Dot, Digits(2, 1), Dot, Digits(3, 1)>>, 32)

\* a field whose captured group is one run of digits
Count(label, value) ==
    Field(label, <<Digits(value, IF value < 10 THEN 1 ELSE IF value < 100 THEN 2 ELSE 3)>>, 30)

\* one field of every attribute the extractor recognises, with values above zero
AttributeFields ==
    << Field(L_age, <<Digits(42, 2)>>, 13),
       Field("Gender", <<Wd("F")>>, 9),
       Field("Education Level", <<Wd("Higher education")>>, 33),
       Field("Family Status", <<Wd("Married")>>, 22),
       Count("Number of Children", 2),
       Count("Household Size", 4),
       Field("Housing Type", <<Wd("House / apartment")>>, 31),
       Field("Owns Real Estate", <<Wd("Yes")>>, 21),
       Field("Owns a Car", <<Wd("No")>>, 14),
       Field(L_car_age, <<Digits(5, 1)>>, 15),
       Field("Income Type", <<Wd("Working")>>, 20),
       Field("Occupation", <<Wd("Laborers")>>, 20),
       Count("Years Employed", 7),
       IncomeField,
       Field("Contract Type", <<Wd("Cash loans")>>, 24),
       Field("Requested Credit Amount", <<Digits(90, 2), Comma, Digits(0, 3)>>, 32),
       Field("Monthly Annuity", <<Digits(4, 1), Comma, Digits(500, 3)>>, 23),
       Field("Average Previous Credit Amount", <<Digits(30, 2), Comma, Digits(0, 3)>>, 39),
       Field("Approval Rate", <<Digits(75, 2), Dot, Digits(0, 1)>>, 20),
       Count("Active External Credits", 3),
       ExternalField,
       DebtField,
       Field("Historical Maximum Overdue Amount", <<Digits(1, 1), Comma, Digits(200, 3)>>, 41),
       Field("Average Payment Delay", <<Digits(3, 1), Dot, Digits(5, 1)>>, 31),
       PartialField,
       Count("Current Overdue Days", 14),
       Count("Historical Maximum Overdue Days", 45),
       Count("Total Credit Prolongations", 2) >>

\* the attributes that have a phrase for zero, at zero
ZeroFields ==
    << Count("Current Overdue Days", 0),
       Count("Historical Maximum Overdue Days", 0),
       Count("Total Credit Prolongations", 0) >>

\* the fields of a sequence, each followed by a newline
RECURSIVE Lines(_)
Lines(fields) ==
    IF fields = << >> THEN << >> ELSE << Head(fields), WS(1) >> \o Lines(Tail(fields))

\* a profile with every attribute, a profile whose overdue and prolongation
\* counts are zero, and the profiles that hold a single attribute
AttributeTexts ==
    { PyStr(Lines(AttributeFields)), PyStr(Lines(ZeroFields)),
      PyStr(Lines(SubSeq(AttributeFields, 1, 25) \o ZeroFields)) }
    \cup { PyStr(<<AttributeFields[i]>>) : i \in DOMAIN AttributeFields }
    \cup { PyStr(<<ZeroFields[i]>>) : i \in DOMAIN ZeroFields }

\* amounts that put the two ratios below, on and above each threshold
IncomeAmounts == {0, 100}
DebtAmounts == {0, 1, 19, 20, 29, 30, 39, 40, 59, 60, 61, 119, 120, 200}
ExternalAmounts == {0, 100, 200}

RatioTexts ==
    { PyStr(income \o debt \o external) :
        income \in { << >> } \cup { <<Count("Annual Income", i)>> : i \in IncomeAmounts },
        debt \in { << >> } \cup { <<Count("Total Outstanding Debt", d)>> : d \in DebtAmounts },
        external \in { << >> }
            \cup { <<Count("Total External Credit Amount", e)>> : e \in ExternalAmounts } }

\* profile texts: each labelled field absent, well formed or malformed
FeatureTexts ==
    { PyStr(income \o debt \o external \o delay \o completion) :
        income \in { << >>, <<IncomeField, WS(1)>>, <<BadIncomeField, WS(1)>> },
        debt \in { << >>, <<DebtField, WS(1)>> },
        external \in { << >>, <<ExternalField, WS(1)>> },
        delay \in { << >>, <<EarlyField, WS(1)>>, <<OnTimeField, WS(1)>> },
        completion \in { << >>, <<CompletionField>>, <<PartialField>>,
                         <<BadCompletionField>> } }
    \cup { PlainText, EmptyStr }
    \cup AttributeTexts \cup RatioTexts

ExtractKeyFeatures ==
    /\ last = Idle
    /\ \E text \in FeatureTexts :
          last' = [op |-> "extract_key_features", text |-> text,
                   out |-> extract_key_features(text)]
    /\ UNCHANGED <<env, router, process>>

NextFeatures == ExtractKeyFeatures \/ Return

SpecFeatures == Init /\ [][NextFeatures]_vars

(***************************************************************************)
(* QdrantRetriever.search called on its own                                *)
(***************************************************************************)
K_income_range == <<"AMT_INCOME_TOTAL", RangeSuffix>>
K_range_inside == <<"AGE", RangeSuffix, "_YEARS">>
RangeBoth == PyDict(K_gte :> PyInt(-20075) @@ K_lte :> PyInt(-12775))

\* filters over a plain key, keys ending in _range and a key holding _range
\* inside, each with a scalar or a dict as value
SearchFilters ==
    {PyNone}
    \cup DictsOver(K_target :> {PyInt(1), RangeGte}
                   @@ K_birth_range :> {RangeGte, RangeBoth, RangeNull, PyInt(-12000)}
                   @@ K_income_range :> {PyDict(<< >>), PyStr(<<W("high", 4)>>)}
                   @@ K_range_inside :> {RangeGte})

Search ==
    /\ last = Idle
    /\ \E query \in {RawQuery, EmptyStr}, top_k \in TopKs, fc \in SearchFilters :
          \E db \in DBResponses(top_k) :
             last' = [op |-> "search", query |-> query, top_k |-> top_k,
                      filter_conditions |-> fc, db |-> db,
                      requests |-> search(query, top_k, fc, db).requests,
                      out |-> search(query, top_k, fc, db).out]
    /\ UNCHANGED <<env, router, process>>

NextSearch == Search \/ Return

SpecSearch == Init /\ [][NextSearch]_vars

(***************************************************************************)
(* LLMQueryUnderstanding.parse_query called on its own                     *)
(***************************************************************************)
\* a str value that holds a code fence, with and without the json tag
FencedSnippet == PyStr(<<W("run", 3), WS(1), Fence, W("select", 6), Fence>>)
TaggedSnippet == PyStr(<<Fence, JsonTag, WS(1), W("{}", 2), WS(1), Fence>>)

\* the JSON objects of the replies: those of the text route and objects with a
\* code fence inside a string
ParseObjects ==
    LLMObjects
    \cup { PyDict(K_search_query :> q @@ K_filters :> FullIntent) :
             q \in {FencedSnippet, TaggedSnippet} }
    \cup { PyDict(K_search_query :> CleanQuery @@ K_explanation :> x) :
             x \in {FencedSnippet, TaggedSnippet} }

Wrappings == {"bare", "fence", "json fence"}

\* the content that holds the JSON text of an object, bare or wrapped
Wrapped(object, wrapping) ==
    CASE wrapping = "bare" -> PyStr(<<JsonText(object)>>)
      [] wrapping = "fence" -> PyStr(<<Fence, WS(1), JsonText(object), WS(1), Fence>>)
      [] wrapping = "json fence" ->
            PyStr(<<Fence, JsonTag, WS(1), JsonText(object), WS(1), Fence>>)

ParseQuery ==
    /\ last = Idle
    /\ \E query \in TextQueries, object \in ParseObjects, wrapping \in Wrappings :
          last' = [op |-> "parse_query", query |-> query, object |-> object,
                   wrapping |-> wrapping,
                   out |-> parse_query(query, router.llm, env,
                                       Ret(Wrapped(object, wrapping))).out]
    /\ UNCHANGED <<env, router, process>>

NextParse == ParseQuery \/ Return

SpecParse == Init /\ [][NextParse]_vars

(***************************************************************************)
(* process_text_query called by callers that keep their filter maps        *)
(***************************************************************************)
\* a caller makes the filter map of its next requests
BuildFilters(c) ==
    /\ last = Idle
    /\ \E f \in ExplicitFilters :
          /\ f # process.held[c]
          /\ process' = [process EXCEPT !.held[c] = f, !.made[c] = f]
    /\ UNCHANGED <<env, router, last>>

\* caller c calls process_text_query(query, 1, held[c], enable) on the shared
\* router: what the call does to the objects, and what it dispatches
TextQuery(c) ==
    /\ last = Idle
    /\ \E query \in TextQueries, enable \in BOOLEAN :
         \E resp \in IF /\ enable /\ router.query_understanding
                        /\ (router.llm \/ initialize_llm(env).ok)
                     THEN LLMResponses ELSE {Unused} :
           \E db \in DBResponses(1) :
             \E r \in {process_text_query(router, env, query, 1, process.held[c], enable,
                                          resp, db)} :
               \E objects \in
                    {filter_objects(process.held[c], enable /\ router.query_understanding,
                                    r.parsed,
                                    IF r.parsed.ok
                                    THEN understood(r.parsed.v, query, process.held[c])
                                    ELSE r.parsed)} :
                  /\ router' = [router EXCEPT !.llm = r.llm]
                  /\ process' = [process EXCEPT !.held[c] = objects.caller]
                  /\ last' = [op |-> "process_text_query", caller |-> c, query |-> query,
                              enable |-> enable, resp |-> resp, db |-> db,
                              filter_conditions |-> process.held[c],
                              parsed |-> r.parsed,
                              final_filters |-> objects[objects.final],
                              search_calls |-> r.search_calls, out |-> r.out]
    /\ UNCHANGED env

NextShared ==
    \/ \E c \in Callers : BuildFilters(c)
    \/ \E c \in Callers : TextQuery(c)
    \/ Return

SpecShared == Init /\ [][NextShared]_vars

(***************************************************************************)
(* The PDF search endpoint                                                 *)
(*                                                                         *)
(* An upload is what reading it gives (the PDF it holds, or the exception  *)
(* file.read() raises) and what writing these bytes to the temporary file  *)
(* does.  NamedTemporaryFile(delete=False) creates the file on entry and   *)
(* closing it leaves it on disk.                                           *)
(***************************************************************************)
TmpName == <<W("tmpk3v9x2aa", 11), W(".pdf", 4)>>

\* lines 133-156 on what process_pdf_query did: the response or the
\* exception, after the finally clause has unlinked the temporary file
pdf_response(routed) ==
    [out |-> IF routed.out.ok
             THEN Ret([total_results |-> Len(routed.out.v),
                       pages_extracted |->
                           IF routed.out.v # << >>
                           THEN routed.out.v[1].query_pages_extracted ELSE 0])
             ELSE routed.out,
     tmp_exists |-> FALSE, routed |-> TRUE, dispatched |-> routed.requests # << >>]

\* search_pdf(file, top_k) on router r: the response or the exception, and
\* whether the temporary file is on disk when the handler ends.  Lines
\* 128-131 are outside the try statement: an exception there leaves the with
\* block, which closes the file and keeps it
search_pdf(r, e, upload, top_k, db) ==
    IF ~upload.read.ok
    THEN [out |-> upload.read, tmp_exists |-> TRUE, routed |-> FALSE, dispatched |-> FALSE]
    ELSE IF ~upload.write.ok
    THEN [out |-> upload.write, tmp_exists |-> TRUE, routed |-> FALSE, dispatched |-> FALSE]
    ELSE pdf_response(process_pdf_query(r, e, PyStr(TmpName),
                                        [kind |-> "file", pdf |-> upload.read.v],
                                        top_k, PyNone, db))

\* the uploads: every PDF of the routes, read and written or failing on the way
Uploads ==
    { [read |-> Ret(d), write |-> w] :
        d \in RoutePdfs, w \in {Ret(PyNone), Raise("OSError")} }
    \cup { [read |-> Raise("ClientDisconnect"), write |-> Ret(PyNone)] }

SearchPdf ==
    /\ last = Idle
    /\ \E upload \in Uploads, top_k \in TopKs :
         \E db \in IF search_pdf(router, env, upload, top_k, Unused).dispatched
                   THEN DBResponses(top_k) ELSE {Unused} :
            last' = [op |-> "search_pdf", upload |-> upload, top_k |-> top_k, db |-> db]
                    @@ search_pdf(router, env, upload, top_k, db)
    /\ UNCHANGED <<env, router, process>>

NextUpload == SearchPdf \/ Return

SpecUpload == Init /\ [][NextUpload]_vars

(***************************************************************************)
(* The lazily initialised resources under concurrent callers               *)
(*                                                                         *)
(* A thread enters one of get_qdrant_retriever, get_query_router,          *)
(* OCRProcessor.ocr_easyocr and the llm property; pc names the function    *)
(* and the source line the thread is about to execute.  Reading a global   *)
(* and assigning it are separate steps.  threading.Lock is not reentrant:  *)
(* a with statement waits until the lock is free, whoever holds it.        *)
(***************************************************************************)
At(t, label) == process.pc[t] = label
Goto(t, label) == [process EXCEPT !.pc[t] = label]

\* a thread enters one of the calls
Enter(t) ==
    /\ At(t, "idle")
    /\ \E label \in {"get_qdrant_retriever:22", "get_query_router:38", "ocr_easyocr:136"}
                    \cup (IF router.query_understanding THEN {"llm:142"} ELSE {}) :
          process' = [Goto(t, label) EXCEPT !.raised[t] = "none"]
    /\ UNCHANGED <<env, router, last>>

\* line 33: get_qdrant_retriever returns in thread t, p being the process at
\* that point; inside get_query_router the router is then built and stored
\* and the lock of line 39 released (lines 45-46)
RetrieverReturns(t, p) ==
    IF p.caller[t] = "get_query_router"
    THEN [p EXCEPT !.pc[t] = "idle", !.caller[t] = "none",
                   !.router_singleton = TRUE, !.singleton_lock = 0]
    ELSE [p EXCEPT !.pc[t] = "idle"]

\* line 22: if _retriever_singleton is None
RetrieverCheck(t) ==
    /\ At(t, "get_qdrant_retriever:22")
    /\ process' = IF process.retriever_singleton THEN RetrieverReturns(t, process)
                  ELSE Goto(t, "get_qdrant_retriever:23")
    /\ UNCHANGED <<env, router, last>>

\* line 23: with _singleton_lock
RetrieverAcquire(t) ==
    /\ At(t, "get_qdrant_retriever:23")
    /\ process.singleton_lock = 0
    /\ process' = [Goto(t, "get_qdrant_retriever:24") EXCEPT !.singleton_lock = t]
    /\ UNCHANGED <<env, router, last>>

\* line 24: the second test, under the lock
RetrieverRecheck(t) ==
    /\ At(t, "get_qdrant_retriever:24")
    /\ process' = IF process.retriever_singleton
                  THEN RetrieverReturns(t, [process EXCEPT !.singleton_lock = 0])
                  ELSE Goto(t, "get_qdrant_retriever:28")
    /\ UNCHANGED <<env, router, last>>

\* lines 28-32: the constructor call and the assignment; the lock is released
\* on the way out, by return or by exception
RetrieverConstruct(t) ==
    /\ At(t, "get_qdrant_retriever:28")
    /\ process' =
          IF QdrantRetriever_init({"url", "api_key", "collection_name"}).ok
          THEN RetrieverReturns(t, [process EXCEPT !.singleton_lock = 0,
                                                   !.retriever_singleton = TRUE,
                                                   !.constructed.retriever = @ + 1])
          ELSE [Goto(t, "idle") EXCEPT !.singleton_lock = 0,
                                       !.caller[t] = "none",
                                       !.raised[t] = "TypeError"]
    /\ UNCHANGED <<env, router, last>>

\* get_query_router line 38: if _router_singleton is None
RouterCheck(t) ==
    /\ At(t, "get_query_router:38")
    /\ process' = IF process.router_singleton THEN Goto(t, "idle")
                  ELSE Goto(t, "get_query_router:39")
    /\ UNCHANGED <<env, router, last>>

\* line 39: with _singleton_lock
RouterAcquire(t) ==
    /\ At(t, "get_query_router:39")
    /\ process.singleton_lock = 0
    /\ process' = [Goto(t, "get_query_router:40") EXCEPT !.singleton_lock = t]
    /\ UNCHANGED <<env, router, last>>

\* lines 40-44: the second test, under the lock, and the call of
\* get_qdrant_retriever with the lock still held
RouterRecheck(t) ==
    /\ At(t, "get_query_router:40")
    /\ process' = IF process.router_singleton
                  THEN [Goto(t, "idle") EXCEPT !.singleton_lock = 0]
                  ELSE [Goto(t, "get_qdrant_retriever:22")
                            EXCEPT !.caller[t] = "get_query_router"]
    /\ UNCHANGED <<env, router, last>>

\* ocr_easyocr lines 136-140: no package, or the test of _easyocr_reader
ReaderCheck(t) ==
    /\ At(t, "ocr_easyocr:136")
    /\ process' = IF env.easyocr /\ ~process.easyocr_reader
                  THEN Goto(t, "ocr_easyocr:141") ELSE Goto(t, "idle")
    /\ UNCHANGED <<env, router, last>>

\* line 141: _easyocr_reader = easyocr.Reader(['en'], gpu=False)
ReaderConstruct(t) ==
    /\ At(t, "ocr_easyocr:141")
    /\ process' = [Goto(t, "idle") EXCEPT !.easyocr_reader = TRUE,
                                          !.constructed.easyocr_reader = @ + 1]
    /\ UNCHANGED <<env, router, last>>

\* llm property line 142: if self._llm is None
LlmCheck(t) ==
    /\ At(t, "llm:142")
    /\ process' = IF router.llm THEN Goto(t, "idle") ELSE Goto(t, "llm:143")
    /\ UNCHANGED <<env, router, last>>

\* line 143: self._initialize_llm() builds the client or raises
LlmInitialize(t) ==
    /\ At(t, "llm:143")
    /\ IF initialize_llm(env).ok
       THEN /\ router' = [router EXCEPT !.llm = TRUE]
            /\ process' = [Goto(t, "idle") EXCEPT !.constructed.llm = @ + 1]
       ELSE /\ router' = router
            /\ process' = [Goto(t, "idle") EXCEPT !.raised[t] = initialize_llm(env).exc]
    /\ UNCHANGED <<env, last>>

NextLazy ==
    \E t \in Threads :
        \/ Enter(t)
        \/ RetrieverCheck(t)
        \/ RetrieverAcquire(t)
        \/ RetrieverRecheck(t)
        \/ RetrieverConstruct(t)
        \/ RouterCheck(t)
        \/ RouterAcquire(t)
        \/ RouterRecheck(t)
        \/ ReaderCheck(t)
        \/ ReaderConstruct(t)
        \/ LlmCheck(t)
        \/ LlmInitialize(t)

SpecLazy == Init /\ [][NextLazy]_vars

(***************************************************************************)
(* Properties of the routes                                                *)
(***************************************************************************)
TextRoute == last.op = "route" /\ last.kind = "text"
DocumentRoute == last.op = "route" /\ last.kind \in {"pdf", "image"}

\* the caller's explicit filters as a map (none passed: the empty map)
ExplicitMap == IF Truthy(last.filter_conditions) THEN last.filter_conditions.m ELSE << >>

\* C1: the filters process_text_query sends to the retriever are the explicit
\* filters overlaid with the intent-derived filters: every key of the intent
\* map carries the intent's value, every key only in the explicit map carries
\* the explicit value, and no other key is present.
C1_IntentOverlaysExplicit ==
    (TextRoute /\ last.parsed.ok /\ last.parsed.v.filters.t = "dict" /\ last.search_calls # << >>)
    => LET I == last.parsed.v.filters.m
           F == last.search_calls[1].filter_conditions
       IN  /\ F.t = "dict"
           /\ DOMAIN F.m = (DOMAIN ExplicitMap) \cup (DOMAIN I)
           /\ \A k \in DOMAIN I : F.m[k] = I[k]
           /\ \A k \in (DOMAIN ExplicitMap) \ (DOMAIN I) : F.m[k] = ExplicitMap[k]

\* explicit {target: 0} and intent {target: 1, gender: F} sent as {target: 1, gender: F}
C1_Witness ==
    /\ TextRoute
    /\ last.filter_conditions = PyDict(K_target :> PyInt(0))
    /\ last.parsed.ok
    /\ last.parsed.v.filters = PyDict(K_target :> PyInt(1) @@ K_gender :> PyStr(<<W("F", 1)>>))
    /\ Len(last.search_calls) = 1
    /\ last.search_calls[1].filter_conditions
         = PyDict(K_target :> PyInt(1) @@ K_gender :> PyStr(<<W("F", 1)>>))

\* the reply is a str holding one JSON object, bare or fenced
IsJsonObject(resp) ==
    /\ resp.ok
    /\ resp.v.t = "str"
    /\ json_loads(unfence(resp.v.s)).ok
    /\ json_loads(unfence(resp.v.s)).v.t = "dict"

IsFallback(parsed, query) ==
    /\ parsed.search_query = query
    /\ parsed.filters = PyDict(<< >>)
    /\ parsed.detected_filters = PyList(<< >>)

\* C2: parse_query never raises, and whenever the LLM client cannot be built,
\* the LLM call raises or the reply is not a JSON object, it returns the
\* fallback intent: search_query the original query, no filters, no
\* detected attributes.
C2_ParseQueryFallsBack ==
    (TextRoute /\ router.query_understanding)
    => /\ last.parsed.ok
       /\ ~IsJsonObject(last.resp) => IsFallback(last.parsed.v, last.query)

\* a reply that is valid JSON but a list: .get fails and the fallback is returned
C2_Witness ==
    /\ TextRoute
    /\ last.resp = Ret(PyStr(<<JsonText(PyList(<<PyInt(1)>>))>>))
    /\ last.parsed.ok
    /\ IsFallback(last.parsed.v, last.query)
    /\ last.query = RawQuery

\* the LLM collaborator is unavailable: no understanding object, no client, or
\* the call fails
LLMUnavailable == ~router.query_understanding \/ ~last.resp.ok

\* C3: a text query routed while the LLM is unavailable still issues exactly
\* one retrieval call, with the raw input as query text, only the caller's
\* explicit filters and limit top_k, and returns the hits of that call (at
\* most top_k); its outcome is that of the retrieval call.
C3_TextRouteWithoutLLM ==
    (TextRoute /\ LLMUnavailable)
    => /\ Len(last.search_calls) = 1
       /\ Len(last.requests) = 1
       /\ last.search_calls[1].query = last.query
       /\ last.search_calls[1].top_k = last.top_k
       /\ last.requests[1].query.embedding_of = last.query
       /\ last.requests[1].limit = last.top_k
       /\ IF ExplicitMap = << >>
          THEN last.requests[1].query_filter = PyNone
          ELSE /\ last.requests[1].query_filter # PyNone
               /\ DOMAIN last.requests[1].query_filter.must = DOMAIN ExplicitMap
               /\ last.search_calls[1].filter_conditions.m = ExplicitMap
       /\ last.out.ok = last.db.ok
       /\ last.db.ok =>
            /\ Len(last.out.v) = Len(last.db.v)
            /\ Len(last.out.v) <= last.top_k
            /\ \A i \in 1..Len(last.db.v) :
                  /\ last.out.v[i].payload = last.db.v[i].payload
                  /\ last.out.v[i].score = last.db.v[i].score

\* the API key is missing, the raw query goes out with the explicit filter and
\* two hits come back
C3_Witness ==
    /\ TextRoute
    /\ router.query_understanding
    /\ ~env.MISTRAL_API_KEY
    /\ last.llm_calls = 0
    /\ last.query = RawQuery
    /\ last.filter_conditions = PyDict(K_target :> PyInt(0))
    /\ Len(last.requests) = 1
    /\ last.out.ok
    /\ Len(last.out.v) = 2

\* the pages detect_pdf_type looks at
Checked(pdf) == 1..(IF Len(pdf.pages) < 3 THEN Len(pdf.pages) ELSE 3)

\* the characters of s that are not whitespace
RECURSIVE NonWhitespace(_)
NonWhitespace(s) ==
    IF s = << >> THEN 0
    ELSE (IF Head(s).c = "ws" THEN 0 ELSE Head(s).n) + NonWhitespace(Tail(s))

\* the characters of s from its first to its last non-whitespace character
RECURSIVE Span(_)
Span(s) ==
    IF s = << >> THEN 0
    ELSE IF Head(s).c = "ws" THEN Span(Tail(s))
    ELSE IF s[Len(s)].c = "ws" THEN Span(SubSeq(s, 1, Len(s) - 1))
    ELSE StrLen(s)

\* the text pdfplumber extracts from page i, empty when the page has none
Extracted(pdf, i) ==
    IF pdf.pages[i].direct.ok /\ pdf.pages[i].direct.v.t = "str"
    THEN pdf.pages[i].direct.v.s ELSE << >>

NonWhitespaceTotal(pdf) == SumSeq([i \in Checked(pdf) |-> NonWhitespace(Extracted(pdf, i))])
SpanTotal(pdf) == SumSeq([i \in Checked(pdf) |-> Span(Extracted(pdf, i))])

Readable(pdf) == pdf.plumber_opens /\ \A i \in Checked(pdf) : pdf.pages[i].direct.ok

TextMode ==
    /\ last.pdf_type = "text"
    /\ \A i \in 1..Len(last.out) : last.out[i].extraction_method = "direct"
ScannedMode ==
    /\ last.pdf_type = "scanned"
    /\ \A i \in 1..Len(last.out) : last.out[i].extraction_method = "ocr"

\* C4 as stated: load_pdf enters text mode (pages tagged direct) exactly when
\* the first min(3, page_count) pages yield at least 50 non-whitespace
\* characters in total, and scanned mode otherwise.
C4_TextModeFromFifty ==
    (last.op = "load_pdf" /\ Readable(last.pdf))
    => IF NonWhitespaceTotal(last.pdf) >= 50
       THEN TextMode ELSE ScannedMode

\* C4, amended: load_pdf enters text mode exactly when pdfplumber reads the
\* first min(3, page_count) pages and their texts, each stripped of leading
\* and trailing whitespace only, hold more than 50 characters in total;
\* otherwise it enters scanned mode, where every entry comes from OCR and
\* nothing is returned without an OCR processor.
C4_TextModeAboveFifty ==
    last.op = "load_pdf"
    => IF Readable(last.pdf) /\ SpanTotal(last.pdf) > 50
       THEN TextMode
       ELSE ScannedMode /\ (~last.has_ocr => last.out = << >>)

\* two pages of 25 characters, 50 in total: scanned mode, both pages from OCR
C4_Witness ==
    /\ last.op = "load_pdf"
    /\ Readable(last.pdf)
    /\ Len(last.pdf.pages) = 2
    /\ SpanTotal(last.pdf) = 50
    /\ NonWhitespaceTotal(last.pdf) = 50
    /\ last.has_ocr
    /\ last.pdf_type = "scanned"
    /\ Len(last.out) = 2
    /\ last.out[1].extraction_method = "ocr"

\* the primary confidence is at least 60: sum of the confidences kept against
\* 60 times their number
PrimaryConfident(image) ==
    ocr_pytesseract(image).num >= 60 * ocr_pytesseract(image).den

\* C5: ocr_image returns the primary engine's text when the primary
\* confidence is at least 60; below 60 with the secondary engine available it
\* returns the longer of the two texts, the primary one on equal length;
\* without the secondary engine it returns the primary text.
C5_OcrImageSelection ==
    last.op = "ocr_image"
    => LET primary == ocr_pytesseract(last.image).text
           secondary == ocr_easyocr(last.image, env)
       IN  /\ PrimaryConfident(last.image) => last.out = primary
           /\ ~env.easyocr => last.out = primary
           /\ (~PrimaryConfident(last.image) /\ env.easyocr) =>
                 /\ StrLen(secondary.s) > StrLen(primary.s) => last.out = secondary
                 /\ StrLen(secondary.s) <= StrLen(primary.s) => last.out = primary

\* confidence 45, 60 characters from the primary engine and 80 from the
\* secondary: the secondary text is returned
C5_Witness ==
    /\ last.op = "ocr_image"
    /\ env.easyocr
    /\ last.image = Scan(TessText(60), <<45>>, EasyText(80))
    /\ last.out = EasyText(80)

\* C6: a PDF or image query whose extraction yields no page returns an empty
\* list, raises nothing and issues no retrieval call.
C6_EmptyExtractionReturnsEmpty ==
    (DocumentRoute /\ last.extracted = << >>)
    => /\ last.out = Ret(<< >>)
       /\ last.search_calls = << >>
       /\ last.requests = << >>

\* a PDF that neither library can open
C6_Witness ==
    /\ DocumentRoute
    /\ last.kind = "pdf"
    /\ last.node.kind = "file"
    /\ ~last.node.pdf.plumber_opens
    /\ ~last.node.pdf.fitz_opens
    /\ last.out = Ret(<< >>)
    /\ last.requests = << >>

\* the kind the suffix of a name stands for
KindOfSuffix(s) ==
    IF lower(suffix(s)) = ".pdf" THEN "pdf"
    ELSE IF lower(suffix(s)) \in {".png", ".jpg", ".jpeg", ".bmp", ".tiff"} THEN "image"
    ELSE "text"

\* C7 as stated: detect_query_type classifies every input by its suffix: pdf
\* for .pdf, image for an image suffix, text for every other string and for
\* values of other types.
C7_ClassifiesBySuffix ==
    last.op = "detect_query_type"
    => last.out = IF last.query.t \in {"str", "Path"} THEN KindOfSuffix(last.query.s)
                  ELSE "text"

\* C7, amended: detect_query_type classifies by the lower-cased suffix only a
\* Path and a str that names an existing file-system path; a str that names
\* no existing path is text whatever its suffix, and so is a value of any
\* other type.
C7_ClassifiesExistingPathsBySuffix ==
    last.op = "detect_query_type"
    => last.out = IF \/ last.query.t = "Path"
                     \/ last.query.t = "str" /\ last.node.kind # "missing"
                  THEN KindOfSuffix(last.query.s)
                  ELSE "text"

\* the str client.pdf when no such file exists is a text query
C7_Witness ==
    /\ last.op = "detect_query_type"
    /\ last.query = PyStr(PdfName)
    /\ last.node = Missing
    /\ last.out = "text"

\* the occurrences of the payment-completion token in a feature text
CompletionTokens(s) ==
    Cardinality({ i \in 1..Len(s) : s[i].c = "feat" /\ s[i].phrase = "payment completion {}%" })

\* C8: for every text in which the payment-completion-ratio pattern matches,
\* extract_key_features returns a feature text that holds the completion
\* token exactly 12 times, whatever else the text holds.
C8_CompletionEmittedTwelveTimes ==
    (/\ last.op = "extract_key_features"
     /\ re_search({"Payment Completion Ratio"}, last.text.s) # NoMatch)
    => /\ last.out.ok
       /\ CompletionTokens(last.out.v.s) = 12

\* C10: no request dispatched to the vector database holds a range predicate
\* whose gte and lte are both null.
C10_NoNullRangeDispatched ==
    last.op = "route" =>
        \A i \in 1..Len(last.requests) :
            LET f == last.requests[i].query_filter
            IN  f # PyNone =>
                  \A k \in DOMAIN f.must :
                      f.must[k].kind = "range" =>
                          ~(f.must[k].gte = PyNone /\ f.must[k].lte = PyNone)

\* C11: whenever the vector-database call made during route fails, route
\* fails to its caller with that error and returns no list; route returns an
\* empty list only when the database returned no hits or when a document
\* yielded no text.
C11_RetrievalFailureSurfaces ==
    last.op = "route"
    => /\ (last.requests # << >> /\ ~last.db.ok) => last.out = Raise(last.db.exc)
       /\ last.out = Ret(<< >>) =>
             \/ last.requests # << >> /\ last.db = Ret(<< >>)
             \/ DocumentRoute /\ last.extracted = << >>

\* a PDF with text is routed, the database call fails, route raises the failure
C11_Witness ==
    /\ DocumentRoute
    /\ last.kind = "pdf"
    /\ last.extracted # << >>
    /\ Len(last.requests) = 1
    /\ last.db = Raise("RetrievalFailure")
    /\ last.out = Raise("RetrievalFailure")

\* C12: under any interleaving of concurrent callers each lazily initialised
\* resource of the process (the retriever, the EasyOCR reader, the LLM client)
\* is constructed at most once.
C12_ConstructedAtMostOnce ==
    /\ process.constructed.retriever <= 1
    /\ process.constructed.easyocr_reader <= 1
    /\ process.constructed.llm <= 1

\* the JSON object of the reply and the record parse_query made of it
Parsed == TextRoute /\ router.query_understanding /\ IsJsonObject(last.resp) /\ last.parsed.ok
ReplyObject == json_loads(unfence(last.resp.v.s)).v.m

\* C13 as stated: on a parsed reply the record of parse_query has search_query
\* equal to the original query whenever the reply's search_query is missing
\* or empty, filters {} whenever filters is missing and detected attributes []
\* whenever that field is missing.
C13_DefaultsOnMissingOrEmpty ==
    Parsed
    => /\ (K_search_query \notin DOMAIN ReplyObject
            \/ ~Truthy(dict_get(ReplyObject, K_search_query, PyNone)))
          => last.parsed.v.search_query = last.query
       /\ K_filters \notin DOMAIN ReplyObject => last.parsed.v.filters = PyDict(<< >>)
       /\ K_detected_attributes \notin DOMAIN ReplyObject
          => last.parsed.v.detected_filters = PyList(<< >>)

\* C13, amended: on a parsed reply the record of parse_query has search_query
\* equal to the original query whenever the reply has no search_query field,
\* and equal to the field, empty or null included, whenever it has one;
\* filters is {} whenever the field is missing and detected attributes is []
\* whenever that field is missing.  The retrieval call of process_text_query
\* uses the original query when the record's search_query is empty or null.
C13_DefaultsOnMissing ==
    Parsed
    => /\ K_search_query \notin DOMAIN ReplyObject => last.parsed.v.search_query = last.query
       /\ K_search_query \in DOMAIN ReplyObject
          => last.parsed.v.search_query = ReplyObject[K_search_query]
       /\ K_filters \notin DOMAIN ReplyObject => last.parsed.v.filters = PyDict(<< >>)
       /\ K_detected_attributes \notin DOMAIN ReplyObject
          => last.parsed.v.detected_filters = PyList(<< >>)
       /\ (last.search_calls # << >> /\ ~Truthy(last.parsed.v.search_query))
          => last.search_calls[1].query = last.query

\* the reply holds search_query "": the record keeps "" and the retrieval call
\* carries the original query
C13_Witness ==
    /\ Parsed
    /\ last.query = RawQuery
    /\ K_search_query \in DOMAIN ReplyObject
    /\ ReplyObject[K_search_query] = PyStr(<< >>)
    /\ last.parsed.v.search_query = PyStr(<< >>)
    /\ Len(last.search_calls) = 1
    /\ last.search_calls[1].query = RawQuery

\* C14: for every PDF or image query route makes no LLM call and never
\* invokes parse_query, and the filters of its retrieval call and of the
\* request dispatched are the caller's explicit filters, unmerged and
\* unchanged.
C14_DocumentRouteBypassesIntent ==
    DocumentRoute
    => /\ last.llm_calls = 0
       /\ last.parsed = NotCalled
       /\ Len(last.search_calls) <= 1
       /\ \A i \in 1..Len(last.search_calls) :
             /\ last.search_calls[i].filter_conditions = last.filter_conditions
             /\ last.requests[i].query_filter = BuildQueryFilter(last.filter_conditions)

\* a PDF with text routed with the explicit filter {target: 0} on a router
\* whose LLM understanding is enabled
C14_Witness ==
    /\ DocumentRoute
    /\ router.query_understanding
    /\ last.filter_conditions = PyDict(K_target :> PyInt(0))
    /\ Len(last.search_calls) = 1
    /\ last.search_calls[1].filter_conditions = PyDict(K_target :> PyInt(0))
    /\ last.llm_calls = 0

\* the core fields of a hit are the ones the retriever made of database hit p
CoreFieldsOf(hit, p) ==
    /\ hit.client_id = dict_get(p.payload.m, K_client_id, PyNone)
    /\ hit.score = p.score
    /\ hit.target = dict_get(p.payload.m, K_target, PyNone)
    /\ hit.text = dict_get(p.payload.m, K_text, PyNone)
    /\ hit.payload = p.payload

Returned == last.op = "route" /\ last.out.ok /\ last.requests # << >> /\ last.db.ok

\* C15 as stated: every hit returned by route, for every query kind, carries
\* query-kind metadata equal to the kind route detected, plus the file name
\* and the pages-extracted count for document queries, and its core fields
\* are the ones the retriever returned.
C15_EveryHitAnnotated ==
    Returned
    => /\ Len(last.out.v) = Len(last.db.v)
       /\ \A i \in 1..Len(last.out.v) :
             /\ CoreFieldsOf(last.out.v[i], last.db.v[i])
             /\ "query_type" \in DOMAIN last.out.v[i]
             /\ last.out.v[i].query_type = last.kind
             /\ last.kind \in {"pdf", "image"} =>
                   /\ "query_file" \in DOMAIN last.out.v[i]
                   /\ "query_pages_extracted" \in DOMAIN last.out.v[i]

\* C15, amended: every hit route returns has the core fields the retriever
\* returned.  A hit of a PDF query carries query_type pdf, the file name and
\* the number of entries extracted; a hit of an image query carries
\* query_type image and the file name but no pages count; a hit of a text
\* query carries no query-kind metadata at all.
C15_DocumentHitsAnnotated ==
    Returned
    => /\ Len(last.out.v) = Len(last.db.v)
       /\ \A i \in 1..Len(last.out.v) :
             LET hit == last.out.v[i]
             IN  /\ CoreFieldsOf(hit, last.db.v[i])
                 /\ last.kind = "pdf" =>
                       /\ {"query_type", "query_file", "query_pages_extracted"}
                             \subseteq DOMAIN hit
                       /\ hit.query_type = "pdf"
                       /\ hit.query_file = last.query.s
                       /\ hit.query_pages_extracted = Len(last.extracted)
                 /\ last.kind = "image" =>
                       /\ {"query_type", "query_file"} \subseteq DOMAIN hit
                       /\ "query_pages_extracted" \notin DOMAIN hit
                       /\ hit.query_type = "image"
                       /\ hit.query_file = last.query.s
                 /\ last.kind = "text" =>
                       {"query_type", "query_file", "query_pages_extracted"}
                          \cap DOMAIN hit = {}

\* a text query answered with two hits, neither carrying query_type
C15_Witness ==
    /\ Returned
    /\ last.kind = "text"
    /\ Len(last.out.v) = 2
    /\ "query_type" \notin DOMAIN last.out.v[1]
    /\ CoreFieldsOf(last.out.v[1], last.db.v[1])

Searched == last.op = "search" /\ Truthy(last.filter_conditions)

\* C16 as stated: search turns every filter whose key ends in _range into a
\* range predicate and every other filter into an exact-match predicate: the
\* kind of predicate depends only on the key.
C16_KindFollowsKey ==
    Searched
    => \A k \in DOMAIN last.filter_conditions.m :
          last.requests[1].query_filter.must[k].kind
             = IF k[Len(k)] = "_range" THEN "range" ELSE "match"

\* C16, amended: search turns a filter into a range predicate exactly when
\* its key ends in _range and its value is a dict; the predicate is then on
\* the key without _range and holds the gte and lte of the dict, null when
\* absent.  Every other filter, a _range key with a value that is not a dict
\* included, becomes an exact match of the value on the unchanged key.
C16_KindFollowsKeyAndValue ==
    Searched
    => \A k \in DOMAIN last.filter_conditions.m :
          LET value == last.filter_conditions.m[k]
              condition == last.requests[1].query_filter.must[k]
          IN  IF k[Len(k)] = "_range" /\ value.t = "dict"
              THEN /\ condition.kind = "range"
                   /\ condition.key = SelectSeq(k, LAMBDA piece : piece # "_range")
                   /\ condition.gte = (IF K_gte \in DOMAIN value.m THEN value.m[K_gte] ELSE PyNone)
                   /\ condition.lte = (IF K_lte \in DOMAIN value.m THEN value.m[K_lte] ELSE PyNone)
              ELSE /\ condition.kind = "match"
                   /\ condition.key = k
                   /\ condition.value = value

\* the filter {DAYS_BIRTH_range: -12000} is sent as an exact match on the key
\* DAYS_BIRTH_range
C16_Witness ==
    /\ Searched
    /\ K_birth_range \in DOMAIN last.filter_conditions.m
    /\ last.filter_conditions.m[K_birth_range] = PyInt(-12000)
    /\ last.requests[1].query_filter.must[K_birth_range].kind = "match"
    /\ last.requests[1].query_filter.must[K_birth_range].key = K_birth_range

\* C17: search returns exactly the hits the database returned, one result per
\* hit and in the same order, nothing dropped, duplicated or re-sorted.
C17_HitsAsReturned ==
    (last.op = "search" /\ last.db.ok)
    => /\ last.out.ok
       /\ Len(last.out.v) = Len(last.db.v)
       /\ \A i \in 1..Len(last.db.v) : CoreFieldsOf(last.out.v[i], last.db.v[i])

\* the database answers the lower-scored point first, then the higher-scored
\* one: the results come in that order
C17_Witness ==
    /\ last.op = "search"
    /\ last.db = Ret(<<Point(2), Point(1)>>)
    /\ last.out.ok
    /\ Len(last.out.v) = 2
    /\ last.out.v[1].score = Point(2).score
    /\ last.out.v[2].score = Point(1).score

\* the same call on a router whose LLM client is built, in an environment
\* that differs only in providing the LLM
WithWorkingLLM ==
    route([query_understanding |-> TRUE, llm |-> TRUE],
          Environment(TRUE, TRUE, env.easyocr),
          last.query, last.node, last.top_k, last.filter_conditions, last.resp, last.db)

\* C18: when the LLM client cannot be initialised the router is still
\* constructed, and every PDF or image route goes through extraction, feature
\* weighting and retrieval exactly as it does with a working LLM client: the
\* same entries extracted, the same retrieval call, the same outcome.
C18_DocumentRouteWithoutLLM ==
    (DocumentRoute /\ router.query_understanding /\ ~initialize_llm(env).ok)
    => /\ ~router.llm
       /\ last.llm_calls = 0
       /\ last.extracted = WithWorkingLLM.extracted
       /\ last.search_calls = WithWorkingLLM.search_calls
       /\ last.requests = WithWorkingLLM.requests
       /\ last.out = WithWorkingLLM.out

\* no API key: a PDF with a text layer is routed and a hit comes back
C18_Witness ==
    /\ DocumentRoute
    /\ last.kind = "pdf"
    /\ router.query_understanding
    /\ ~env.MISTRAL_API_KEY
    /\ last.extracted # << >>
    /\ Len(last.requests) = 1
    /\ last.out.ok
    /\ Len(last.out.v) >= 1

\* page i of the PDF has text the mode in use can extract
ExtractableIn(pdf, i, mode) ==
    IF mode = "text"
    THEN pdf.pages[i].direct.ok /\ HasText(pdf.pages[i].direct.v)
    ELSE pdf.pages[i].raster.ok /\ HasText(ocr_image(pdf.pages[i].raster.v, env))

\* C19: when extraction of one page of a PDF fails only that page is omitted:
\* every other page with extractable text, before and after the failing one,
\* has an entry in the output, in text mode and in scanned mode.
C19_OnlyFailingPageOmitted ==
    (/\ last.op = "load_pdf"
     /\ last.pdf.plumber_opens /\ last.pdf.fitz_opens
     /\ last.pdf_type = "scanned" => last.has_ocr)
    => \A i \in 1..Len(last.pdf.pages) :
          ExtractableIn(last.pdf, i, last.pdf_type)
          => \E j \in 1..Len(last.out) : last.out[j].page = i

\* C20: the output of load_pdf for one document has 1-based, strictly
\* increasing page numbers; every entry has non-blank text, the text
\* extracted from its page; a page with no extractable text has no entry, in
\* text mode and in scanned mode.
C20_EntriesOrderedAndNonBlank ==
    last.op = "load_pdf"
    => /\ \A j \in 1..Len(last.out) :
             /\ last.out[j].page \in 1..Len(last.pdf.pages)
             /\ HasText(last.out[j].text)
             /\ ExtractableIn(last.pdf, last.out[j].page, last.pdf_type)
             /\ last.out[j].text =
                   IF last.pdf_type = "text" THEN last.pdf.pages[last.out[j].page].direct.v
                   ELSE ocr_image(last.pdf.pages[last.out[j].page].raster.v, env)
       /\ \A j, k \in 1..Len(last.out) : j < k => last.out[j].page < last.out[k].page

\* text mode on three pages of which the second has no text: entries for
\* pages 1 and 3 only
C20_Witness ==
    /\ last.op = "load_pdf"
    /\ last.pdf_type = "text"
    /\ Len(last.pdf.pages) = 3
    /\ last.pdf.pages[2].direct = Ret(PyNone)
    /\ Len(last.out) = 2
    /\ last.out[1].page = 1
    /\ last.out[2].page = 3

(***************************************************************************)
(* Properties of the feature weights                                       *)
(***************************************************************************)
\* the number of tokens of a phrase in a feature text
Occurrences(s, phrase) ==
    Cardinality({ i \in 1..Len(s) : s[i].c = "feat" /\ s[i].phrase = phrase })

\* the phrases of a feature text
PhrasesOf(s) == { s[i].phrase : i \in { j \in 1..Len(s) : s[j].c = "feat" } }

TierRange(tier) ==
    CASE tier = "critical" -> 8..15
      [] tier = "high" -> 4..7
      [] tier = "medium" -> 2..3
      [] tier = "low" -> {1}

CriticalPhrases ==
    { "outstanding debt ${}", "early payments", "on-time payments", "late payments",
      "payment completion {}%", "currently overdue {} days", "no current overdue",
      "max overdue {} days", "no historical overdue",
      "debt-to-income 0% no debt", "debt-to-income {}% low debt",
      "debt-to-income {}% moderate debt", "debt-to-income {}% high debt",
      "debt-to-income {}% very high debt",
      "credit utilization 0% fully paid", "credit utilization {}% low",
      "credit utilization {}% moderate", "credit utilization {}% high" }

HighPhrases ==
    { "employed {} years", "income ${}", "previous credit ${}", "{} active credits",
      "external credit ${}", "max overdue amount ${}", "{} prolongations",
      "no prolongations" }

LowPhrases == { "age {} years", "gender {}", "education {}", "car age {} years" }

ApprovalRate == "approval rate {}%"

\* the tier of a phrase when the approval rate is a high attribute
TierWithApprovalHigh(phrase) ==
    IF phrase \in CriticalPhrases THEN "critical"
    ELSE IF phrase \in HighPhrases \cup {ApprovalRate} THEN "high"
    ELSE IF phrase \in LowPhrases THEN "low"
    ELSE "medium"

\* the tier of a phrase when the approval rate is a critical attribute
TierWithApprovalCritical(phrase) ==
    IF phrase \in CriticalPhrases \cup {ApprovalRate} THEN "critical"
    ELSE IF phrase \in HighPhrases THEN "high"
    ELSE IF phrase \in LowPhrases THEN "low"
    ELSE "medium"

\* the number of repetitions of each phrase
Repetitions(phrase) ==
    CASE phrase \in { "debt-to-income 0% no debt", "debt-to-income {}% low debt",
                      "debt-to-income {}% moderate debt", "debt-to-income {}% high debt",
                      "debt-to-income {}% very high debt" } -> 15
      [] phrase \in { "payment completion {}%", "max overdue {} days",
                      "credit utilization 0% fully paid", "credit utilization {}% low",
                      "credit utilization {}% moderate", "credit utilization {}% high" } -> 12
      [] phrase \in { "outstanding debt ${}", "early payments", "on-time payments",
                      "late payments", "currently overdue {} days",
                      "no current overdue" } -> 10
      [] phrase \in { "no historical overdue", ApprovalRate } -> 8
      [] phrase = "max overdue amount ${}" -> 7
      [] phrase = "{} prolongations" -> 6
      [] phrase \in { "employed {} years", "income ${}", "{} active credits",
                      "external credit ${}" } -> 5
      [] phrase \in { "previous credit ${}", "no prolongations" } -> 4
      [] phrase \in { "{} children", "owns real estate", "no real estate", "owns car",
                      "no car", "occupation {}", "requesting ${}",
                      "monthly payment ${}" } -> 3
      [] phrase \in { "family status {}", "household size {}", "housing {}",
                      "income type {}", "contract {}" } -> 2
      [] phrase \in LowPhrases -> 1

\* C21: the number of times extract_key_features repeats the phrase of a
\* recognized attribute is a constant in the multiplier range of the
\* attribute's tier: 8 to 15 critical, 4 to 7 high (employment tenure, income
\* amount, active-credit count, approval rate), 2 to 3 medium, 1 low.
C21_RepetitionsInTierRange ==
    (last.op = "extract_key_features" /\ last.out.ok) =>
        \A phrase \in PhrasesOf(last.out.v.s) :
            /\ Occurrences(last.out.v.s, phrase) = Repetitions(phrase)
            /\ Repetitions(phrase) \in TierRange(TierWithApprovalHigh(phrase))

\* C21 as amended: the same with the approval rate a critical attribute,
\* repeated 8 times.
C21_RepetitionsInTierRangeApprovalCritical ==
    (last.op = "extract_key_features" /\ last.out.ok) =>
        \A phrase \in PhrasesOf(last.out.v.s) :
            /\ Occurrences(last.out.v.s, phrase) = Repetitions(phrase)
            /\ Repetitions(phrase) \in TierRange(TierWithApprovalCritical(phrase))

\* the profile that holds every attribute yields a phrase of every tier
C21_Witness ==
    /\ last.op = "extract_key_features"
    /\ last.text = PyStr(Lines(AttributeFields))
    /\ last.out.ok
    /\ Occurrences(last.out.v.s, ApprovalRate) = 8
    /\ Occurrences(last.out.v.s, "income ${}") = 5
    /\ Occurrences(last.out.v.s, "family status {}") = 2
    /\ Occurrences(last.out.v.s, "gender {}") = 1
    /\ Cardinality(PhrasesOf(last.out.v.s)) = 30

\* whether the pattern of a label matches in the text of the call
Recognized(label) == re_search({label}, last.text.s) # NoMatch

\* the amount captured for a label is above zero
Positive(label) ==
    /\ Recognized(label)
    /\ AmountValue({label}, last.text.s).ok
    /\ AmountValue({label}, last.text.s).v.n > 0

DebtToIncomePhrases ==
    { "debt-to-income 0% no debt", "debt-to-income {}% low debt",
      "debt-to-income {}% moderate debt", "debt-to-income {}% high debt",
      "debt-to-income {}% very high debt" }

CreditUtilizationPhrases ==
    { "credit utilization 0% fully paid", "credit utilization {}% low",
      "credit utilization {}% moderate", "credit utilization {}% high" }

\* the number of tokens of a feature text whose phrase is in a set
OccurrencesIn(s, phrases) ==
    Cardinality({ i \in 1..Len(s) : s[i].c = "feat" /\ s[i].phrase \in phrases })

\* C22: when outstanding debt and income are both recognized the
\* debt-to-income phrase is emitted exactly 15 times; when outstanding debt
\* and total external credit are both recognized the credit-utilization
\* phrase is emitted exactly 12 times; a derived feature with an absent input
\* is not emitted.
C22_DerivedWhenRecognized ==
    (last.op = "extract_key_features" /\ last.out.ok) =>
        /\ OccurrencesIn(last.out.v.s, DebtToIncomePhrases) =
              IF Recognized("Total Outstanding Debt") /\ Recognized("Annual Income")
              THEN 15 ELSE 0
        /\ OccurrencesIn(last.out.v.s, CreditUtilizationPhrases) =
              IF Recognized("Total Outstanding Debt")
                 /\ Recognized("Total External Credit Amount")
              THEN 12 ELSE 0

\* C22 as amended: the derived feature is emitted (15 and 12 times) exactly
\* when the debt is recognized and the amount it is divided by is recognized
\* and above zero.
C22_DerivedWhenDivisorPositive ==
    (last.op = "extract_key_features" /\ last.out.ok) =>
        /\ OccurrencesIn(last.out.v.s, DebtToIncomePhrases) =
              IF Recognized("Total Outstanding Debt") /\ Positive("Annual Income")
              THEN 15 ELSE 0
        /\ OccurrencesIn(last.out.v.s, CreditUtilizationPhrases) =
              IF Recognized("Total Outstanding Debt")
                 /\ Positive("Total External Credit Amount")
              THEN 12 ELSE 0

\* a debt of zero against an income and an external credit above zero
C22_Witness ==
    /\ last.op = "extract_key_features"
    /\ last.out.ok
    /\ Recognized("Total Outstanding Debt")
    /\ AmountValue({"Total Outstanding Debt"}, last.text.s).v.n = 0
    /\ Positive("Annual Income")
    /\ Positive("Total External Credit Amount")
    /\ Occurrences(last.out.v.s, "debt-to-income 0% no debt") = 15
    /\ Occurrences(last.out.v.s, "credit utilization 0% fully paid") = 12

\* the amount captured for a label in the text of the call
Captured(label) == AmountValue({label}, last.text.s).v.n

\* the bucket of debt / income: 0, below 20%, 20% to below 40%, 40% to below
\* 60%, 60% and above
DebtToIncomeBucket(debt, income) ==
    IF debt = 0 THEN "debt-to-income 0% no debt"
    ELSE IF debt * 100 < 20 * income THEN "debt-to-income {}% low debt"
    ELSE IF 20 * income <= debt * 100 /\ debt * 100 < 40 * income
         THEN "debt-to-income {}% moderate debt"
    ELSE IF 40 * income <= debt * 100 /\ debt * 100 < 60 * income
         THEN "debt-to-income {}% high debt"
    ELSE "debt-to-income {}% very high debt"

\* the bucket of debt / external credit: 0, below 30%, 30% to below 60%, 60%
\* and above
CreditUtilizationBucket(debt, external) ==
    IF debt = 0 THEN "credit utilization 0% fully paid"
    ELSE IF debt * 100 < 30 * external THEN "credit utilization {}% low"
    ELSE IF 30 * external <= debt * 100 /\ debt * 100 < 60 * external
         THEN "credit utilization {}% moderate"
    ELSE "credit utilization {}% high"

\* C23: an emitted derived ratio carries the phrase of its bucket, and of no
\* other bucket: debt-to-income 0 / below 20% / 20% to below 40% / 40% to
\* below 60% / 60% and above, credit utilization 0 / below 30% / 30% to below
\* 60% / 60% and above; 20, 40, 60 and 30, 60 belong to the upper bucket.
C23_RatioInItsBucket ==
    (last.op = "extract_key_features" /\ last.out.ok) =>
        /\ PhrasesOf(last.out.v.s) \cap DebtToIncomePhrases # {} =>
              PhrasesOf(last.out.v.s) \cap DebtToIncomePhrases =
                  { DebtToIncomeBucket(Captured("Total Outstanding Debt"),
                                       Captured("Annual Income")) }
        /\ PhrasesOf(last.out.v.s) \cap CreditUtilizationPhrases # {} =>
              PhrasesOf(last.out.v.s) \cap CreditUtilizationPhrases =
                  { CreditUtilizationBucket(Captured("Total Outstanding Debt"),
                                            Captured("Total External Credit Amount")) }

\* a debt of 60 against an income of 100 and an external credit of 200: 60%
\* is very high debt and 30% is moderate utilization
C23_Witness ==
    /\ last.op = "extract_key_features"
    /\ last.out.ok
    /\ Recognized("Total Outstanding Debt") /\ Captured("Total Outstanding Debt") = 60
    /\ Recognized("Annual Income") /\ Captured("Annual Income") = 100
    /\ Recognized("Total External Credit Amount")
    /\ Captured("Total External Credit Amount") = 200
    /\ Occurrences(last.out.v.s, "debt-to-income {}% very high debt") = 15
    /\ Occurrences(last.out.v.s, "credit utilization {}% moderate") = 12

\* the labels a phrase comes from: the phrase is emitted only when, for one
\* of these sets, the pattern of every label in it matches
Needs(phrase) ==
    CASE phrase = "age {} years" -> { {L_age}, {L_car_age} }
      [] phrase = "gender {}" -> { {"Gender"} }
      [] phrase = "education {}" -> { {"Education Level"} }
      [] phrase = "family status {}" -> { {"Family Status"} }
      [] phrase = "{} children" -> { {"Number of Children"} }
      [] phrase = "household size {}" -> { {"Household Size"} }
      [] phrase = "housing {}" -> { {"Housing Type"} }
      [] phrase \in {"owns real estate", "no real estate"} -> { {"Owns Real Estate"} }
      [] phrase \in {"owns car", "no car"} -> { {"Owns a Car"} }
      [] phrase = "car age {} years" -> { {L_car_age} }
      [] phrase = "income type {}" -> { {"Income Type"} }
      [] phrase = "occupation {}" -> { {"Occupation"} }
      [] phrase = "employed {} years" -> { {"Years Employed"} }
      [] phrase = "income ${}" -> { {"Annual Income"} }
      [] phrase = "contract {}" -> { {"Contract Type"} }
      [] phrase = "requesting ${}" -> { {"Requested Credit Amount"} }
      [] phrase = "monthly payment ${}" -> { {"Monthly Annuity"} }
      [] phrase = "previous credit ${}" -> { {"Average Previous Credit Amount"} }
      [] phrase = ApprovalRate -> { {"Approval Rate"} }
      [] phrase = "{} active credits" -> { {"Active External Credits"} }
      [] phrase = "external credit ${}" -> { {"Total External Credit Amount"} }
      [] phrase = "outstanding debt ${}" -> { {"Total Outstanding Debt"} }
      [] phrase = "max overdue amount ${}" -> { {"Historical Maximum Overdue Amount"} }
      [] phrase \in {"early payments", "on-time payments", "late payments"} ->
            { {"Average Payment Delay"} }
      [] phrase = "payment completion {}%" -> { {"Payment Completion Ratio"} }
      [] phrase \in {"currently overdue {} days", "no current overdue"} ->
            { {"Current Overdue Days"} }
      [] phrase \in {"max overdue {} days", "no historical overdue"} ->
            { {"Historical Maximum Overdue Days"} }
      [] phrase \in {"{} prolongations", "no prolongations"} ->
            { {"Total Credit Prolongations"} }
      [] phrase \in DebtToIncomePhrases -> { {"Total Outstanding Debt", "Annual Income"} }
      [] phrase \in CreditUtilizationPhrases ->
            { {"Total Outstanding Debt", "Total External Credit Amount"} }

\* every phrase of the returned text comes from an attribute that is present
AbsentContributesNothing ==
    \A phrase \in PhrasesOf(last.out.v.s) :
        \E labels \in Needs(phrase) : \A label \in labels : Recognized(label)

\* the count captured for a label is zero
Zero(label) ==
    /\ Recognized(label)
    /\ DigitsValue(re_search({label}, last.text.s).raw) = 0

\* an attribute at zero contributes its zero phrase k times and no other phrase
ZeroPhrase(label, phrase, zero_phrase, k) ==
    Zero(label) => /\ Occurrences(last.out.v.s, zero_phrase) = k
                   /\ Occurrences(last.out.v.s, phrase) = 0

Unwrapped ==
    parse_query(last.query, router.llm, env, Ret(Wrapped(last.object, "bare"))).out

\* C25: parse_query on a JSON object text wrapped in a code fence, with or
\* without the json tag, returns the same resolved intent as on the text
\* itself.
C25_FenceIsTransparent ==
    (last.op = "parse_query" /\ last.wrapping # "bare") => last.out = Unwrapped

(***************************************************************************)
(* Properties of the singletons                                            *)
(***************************************************************************)
\* thread t is at a with statement of the singleton lock and the lock is held
Waiting(t) ==
    /\ process.pc[t] \in {"get_qdrant_retriever:23", "get_query_router:39"}
    /\ process.singleton_lock # 0

\* C26: every call to get_query_router returns or raises, also when the
\* retriever singleton is still uninitialized: no caller blocks forever on
\* the singleton lock.  A caller blocks forever when the thread that holds
\* the lock is itself waiting for it, so the holder of the lock is never
\* waiting for the lock.
C26_NoCallerBlocksForever ==
    \A t \in Threads : Waiting(t) => ~Waiting(process.singleton_lock)

(***************************************************************************)
(* Properties of the text route under any reply                            *)
(***************************************************************************)
\* C27: for a text query whose LLM reply parses as a JSON object, whatever
\* the types of its filters and detected_attributes fields,
\* process_text_query reaches the retrieval call without raising: route fails
\* only when the retrieval call itself fails.
C27_ReplyNeverFailsRoute ==
    (TextRoute /\ IsJsonObject(last.resp)) =>
        /\ Len(last.search_calls) = 1
        /\ ~last.out.ok => (~last.db.ok /\ last.out = last.db)

(***************************************************************************)
(* Properties of extract_key_features on malformed fields                  *)
(***************************************************************************)
\* C28: extract_key_features never raises: for every input text, also one in
\* which a captured amount is made only of commas or a captured percentage
\* holds several dots, it returns a string.
C28_ExtractNeverRaises ==
    last.op = "extract_key_features" => (last.out.ok /\ last.out.v.t = "str")

(***************************************************************************)
(* Properties of the callers' filter maps                                  *)
(***************************************************************************)
\* the intent-derived filters of the query of the call
IntentOfCall ==
    IF last.parsed.ok /\ last.parsed.v.filters.t = "dict"
    THEN last.parsed.v.filters.m ELSE << >>

\* the entries of the map the caller made
MadeBy(c) == IF process.made[c].t = "dict" THEN process.made[c].m ELSE << >>

\* C29: process_text_query never modifies the caller's explicit filter map:
\* after any sequence of text queries on a shared router every caller's
\* filter_conditions object has the keys and values the caller gave it, and
\* the filters dispatched for a query hold only entries of the caller's map
\* and intent-derived entries of that same query, never of an earlier one.
C29_CallerFiltersUnchanged ==
    /\ \A c \in Callers : process.held[c] = process.made[c]
    /\ (last.op = "process_text_query" /\ last.search_calls # << >>) =>
          /\ last.search_calls[1].filter_conditions = last.final_filters
          /\ last.final_filters.t = "dict" =>
                \A k \in DOMAIN last.final_filters.m :
                    \/ /\ k \in DOMAIN IntentOfCall
                       /\ last.final_filters.m[k] = IntentOfCall[k]
                    \/ /\ k \in DOMAIN MadeBy(last.caller)
                       /\ last.final_filters.m[k] = MadeBy(last.caller)[k]

\* a call whose intent adds the gender to a caller's map that holds the
\* target only, after which the caller still holds the target only
C29_Witness ==
    /\ last.op = "process_text_query"
    /\ process.made[last.caller] = PyDict(K_target :> PyInt(0))
    /\ process.held[last.caller] = PyDict(K_target :> PyInt(0))
    /\ last.filter_conditions = PyDict(K_target :> PyInt(0))
    /\ last.search_calls # << >>
    /\ last.final_filters =
          PyDict(K_target :> PyInt(0) @@ K_gender :> PyStr(<<W("F", 1)>>))

(***************************************************************************)
(* Properties of the PDF search endpoint                                   *)
(***************************************************************************)
\* C30: the temporary file the PDF search endpoint creates for an upload is
\* deleted by the time the request completes, on success and on every
\* failure path: reading or writing the upload, extraction, retrieval.
C30_TemporaryFileDeleted ==
    last.op = "search_pdf" => ~last.tmp_exists

====
